---- MODULE Spec2Model ----
(***************************************************************************)
(* A model of src/emmylua.rs: the bootstrap/update controller of the       *)
(* emmylua_ls language server extension (check_and_install_server), its    *)
(* platform descriptor (get_binary_name, assets_pattern), its binary       *)
(* locator (find_binary_recursively) and its update gate (the lock file).  *)
(*                                                                         *)
(* Strings are sequences of one-character strings, so that format!,        *)
(* split_once, trim, parse and ends_with are computed, not assumed.        *)
(* Paths are sequences of components relative to the extension's working   *)
(* directory.  The filesystem is a function from the paths of its regular  *)
(* files to their contents; a directory is a proper prefix of a file path. *)
(***************************************************************************)
EXTENDS Integers, Sequences, FiniteSets, TLC

(***************************************************************************)
(* String literals of the source.                                          *)
(***************************************************************************)
EMMYLUA_LS == <<"e","m","m","y","l","u","a","_","l","s">>
EMMYLUA_LS_EXE == <<"e","m","m","y","l","u","a","_","l","s",".","e","x","e">>
DARWIN == <<"d","a","r","w","i","n">>
LINUX == <<"l","i","n","u","x">>
WIN32 == <<"w","i","n","3","2">>
ARM64 == <<"a","r","m","6","4">>
X64 == <<"x","6","4">>
AARCH64_GLIBC == <<"a","a","r","c","h","6","4","-","g","l","i","b","c",".","2",".","1","7">>
X64_GLIBC == <<"x","6","4","-","g","l","i","b","c",".","2",".","1","7">>
TAR_GZ == <<"t","a","r",".","g","z">>
ZIP == <<"z","i","p">>
DOT_ZIP == <<".","z","i","p">>
ARCHIVE_PREFIX == <<"e","m","m","y","l","u","a","_","l","s","-">>
LATEST == <<"l","a","t","e","s","t">>
TMP == <<"t","m","p">>
BIN == <<"b","i","n">>
LOCK_NAME == <<"e","m","m","y","l","u","a","_","u","p","d","a","t","e",".","l","o","c","k">>

\* "./tmp/emmylua_update.lock"
emmylua_update_lock == <<TMP, LOCK_NAME>>

(***************************************************************************)
(* The bounds of the model and the values the environment supplies.        *)
(***************************************************************************)
\* The freshness window of the lock, 24 * 60 * 60 seconds.
Window == 24 * 60 * 60

\* The wall clock takes the values Epoch0 + ClockOffset(k), k in 0..MaxClock: a
\* base time, one exactly a window later, then ones ever closer below that.
Epoch0 == 1700000000
MaxClock == 1
ClockOffset(k) == IF k = 0 THEN 0 ELSE Window - (k - 1)
Times == {Epoch0 + ClockOffset(k) : k \in 0..MaxClock}

\* Release tags the upstream feed may carry.
V090 == <<"0",".","9",".","0">>
V091 == <<"0",".","9",".","1">>
V092 == <<"0",".","9",".","2">>
README == <<"R","E","A","D","M","E",".","m","d">>

\* The instances of the extension; Spec runs the first one alone.
Instances == {1, 2}

(***************************************************************************)
(* String functions of the Rust standard library, as the code uses them.   *)
(***************************************************************************)
Whitespace == {" ", "\n", "\t", "\r"}
Digits == <<"0","1","2","3","4","5","6","7","8","9">>
IsDigit(c) == \E k \in 1..10 : Digits[k] = c
DigitValue(c) == (CHOOSE k \in 1..10 : Digits[k] = c) - 1

RECURSIVE TrimStart(_)
TrimStart(s) ==
  IF s # <<>> /\ Head(s) \in Whitespace THEN TrimStart(Tail(s)) ELSE s

RECURSIVE TrimEnd(_)
TrimEnd(s) ==
  IF s # <<>> /\ s[Len(s)] \in Whitespace
  THEN TrimEnd(SubSeq(s, 1, Len(s) - 1))
  ELSE s

\* str::trim
trim(s) == TrimEnd(TrimStart(s))

\* str::split_once(c): the parts around the first c, if there is one
split_once(s, c) ==
  LET hits == {k \in 1..Len(s) : s[k] = c}
  IN IF hits = {}
     THEN [some |-> FALSE, left |-> <<>>, right |-> <<>>]
     ELSE LET k == CHOOSE h \in hits : \A g \in hits : h <= g
          IN [some |-> TRUE, left |-> SubSeq(s, 1, k - 1),
              right |-> SubSeq(s, k + 1, Len(s))]

RECURSIVE DecimalValue(_)
DecimalValue(s) ==
  IF s = <<>> THEN 0
  ELSE 10 * DecimalValue(SubSeq(s, 1, Len(s) - 1)) + DigitValue(s[Len(s)])

\* str::parse::<u64>: an optional '+', then one or more decimal digits.  (A value
\* above u64::MAX is an error too; the inputs of this model stay far below it.)
parse_u64(s) ==
  LET body == IF s # <<>> /\ Head(s) = "+" THEN Tail(s) ELSE s
  IN IF body # <<>> /\ \A k \in 1..Len(body) : IsDigit(body[k])
     THEN [ok |-> TRUE, value |-> DecimalValue(body)]
     ELSE [ok |-> FALSE, value |-> 0]

\* Display for u64, as format!("{}", n) prints it
RECURSIVE ToDecimal(_)
ToDecimal(n) ==
  IF n < 10 THEN <<Digits[n + 1]>>
  ELSE ToDecimal(n \div 10) \o <<Digits[(n % 10) + 1]>>

\* str::ends_with
ends_with(s, suffix) ==
  /\ Len(s) >= Len(suffix)
  /\ SubSeq(s, Len(s) - Len(suffix) + 1, Len(s)) = suffix

(***************************************************************************)
(* Platform Descriptor.                                                    *)
(***************************************************************************)
\* zed::Os and zed::Architecture, as zed::current_platform() reports them
OsValues == {"Mac", "Linux", "Windows"}
ArchValues == {"Aarch64", "X86", "X8664"}
Platforms == OsValues \X ArchValues

get_binary_name(plat) ==
  IF plat[1] = "Windows" THEN EMMYLUA_LS_EXE ELSE EMMYLUA_LS

\* (a variant of PlatformTable with a seeded fault: the arm64 tag on linux/aarch64, as on the other two)
PlatformTable_arm64(plat) ==
  CASE plat = <<"Mac", "Aarch64">> -> <<DARWIN, ARM64, TAR_GZ>>
    [] plat = <<"Mac", "X8664">> -> <<DARWIN, X64, TAR_GZ>>
    [] plat = <<"Linux", "Aarch64">> -> <<LINUX, ARM64, TAR_GZ>>
    [] plat = <<"Linux", "X8664">> -> <<LINUX, X64_GLIBC, TAR_GZ>>
    [] plat = <<"Windows", "Aarch64">> -> <<WIN32, ARM64, ZIP>>
    [] plat = <<"Windows", "X8664">> -> <<WIN32, X64, ZIP>>
    [] OTHER -> <<>>

\* The match of assets_pattern: (platform_str, arch_str, extension), or no arm.
PlatformTable(plat) ==
  CASE plat = <<"Mac", "Aarch64">> -> <<DARWIN, ARM64, TAR_GZ>>
    [] plat = <<"Mac", "X8664">> -> <<DARWIN, X64, TAR_GZ>>
    [] plat = <<"Linux", "Aarch64">> -> <<LINUX, AARCH64_GLIBC, TAR_GZ>>
    [] plat = <<"Linux", "X8664">> -> <<LINUX, X64_GLIBC, TAR_GZ>>
    [] plat = <<"Windows", "Aarch64">> -> <<WIN32, ARM64, ZIP>>
    [] plat = <<"Windows", "X8664">> -> <<WIN32, X64, ZIP>>
    [] OTHER -> <<>>

\* (a variant of assets_pattern with a seeded fault: no error arm, a pair the table does not know yields
\* an empty pattern)
assets_pattern_no_error(plat) ==
  LET m == PlatformTable(plat)
  IN IF m = <<>>
     THEN [ok |-> TRUE, value |-> <<>>]
     ELSE [ok |-> TRUE, value |-> m[1] \o <<"-">> \o m[2] \o <<".">> \o m[3]]

\* assets_pattern: Ok("{platform}-{arch}.{extension}") or Err(unsupported ...)
assets_pattern(plat) ==
  LET m == PlatformTable(plat)
  IN IF m = <<>>
     THEN [ok |-> FALSE, value |-> <<>>]
     ELSE [ok |-> TRUE, value |-> m[1] \o <<"-">> \o m[2] \o <<".">> \o m[3]]

\* format!("emmylua_ls-{}", assets_name)
archive_name(assets_name) == ARCHIVE_PREFIX \o assets_name

\* the (file_type, _) pair of check_and_install_server
file_type(assets_name) ==
  IF ends_with(assets_name, DOT_ZIP) THEN "Zip" ELSE "GzipTar"

\* format!("./tmp/emmylua_ls-{}", latest_release.version)
archive_path(version) == <<TMP, ARCHIVE_PREFIX \o version>>

\* PathBuf::from("./bin").join(binary_name)
server_path(plat) == <<BIN, get_binary_name(plat)>>

(***************************************************************************)
(* The filesystem.                                                         *)
(***************************************************************************)
IsPrefix(p, q) == Len(p) <= Len(q) /\ SubSeq(q, 1, Len(p)) = p

\* Path::is_file / Path::is_dir
is_file(files, p) == p \in DOMAIN files
is_dir(files, p) == \E q \in DOMAIN files : Len(q) > Len(p) /\ IsPrefix(p, q)

\* std::fs::write / std::fs::copy onto path p
WriteFile(files, p, content) ==
  [q \in DOMAIN files \cup {p} |-> IF q = p THEN content ELSE files[q]]

\* std::fs::remove_dir_all(dir)
RemoveDirAll(files, dir) ==
  [q \in {r \in DOMAIN files : ~IsPrefix(dir, r)} |-> files[q]]

binary_exists(files, p) == is_file(files, p)

(***************************************************************************)
(* Binary Locator.                                                         *)
(***************************************************************************)
\* (a variant of common_paths with a seeded fault: the bin/ candidate probed before the root one)
common_paths_bin_first(base, binary_name) ==
  << base \o <<BIN, binary_name>>,
     base \o <<binary_name>>,
     base \o <<EMMYLUA_LS, binary_name>>,
     base \o <<EMMYLUA_LS, BIN, binary_name>> >>

common_paths(base, binary_name) ==
  << base \o <<binary_name>>,
     base \o <<BIN, binary_name>>,
     base \o <<EMMYLUA_LS, binary_name>>,
     base \o <<EMMYLUA_LS, BIN, binary_name>> >>

\* The indices of the common paths that are regular files.
CommonHits(files, base, binary_name) ==
  {k \in 1..4 : binary_exists(files, common_paths(base, binary_name)[k])}

\* (a variant of search_directory with a seeded fault: only the entries of dir itself, no recursion)
search_directory_flat(files, dir, binary_name) ==
  {p \in DOMAIN files :
     /\ Len(p) = Len(dir) + 1
     /\ IsPrefix(dir, p)
     /\ p[Len(p)] = binary_name}

\* search_directory: a depth-first scan that returns the first regular file named
\* binary_name.  read_dir yields the entries of a directory in no fixed order, so
\* any such file below dir may be the one returned; none at all is NotFound.
search_directory(files, dir, binary_name) ==
  {p \in DOMAIN files :
     /\ Len(p) > Len(dir)
     /\ IsPrefix(dir, p)
     /\ p[Len(p)] = binary_name}

\* find_binary_recursively: the paths it may return; the empty set is Err.
find_binary_recursively(files, dir, binary_name) ==
  LET hits == CommonHits(files, dir, binary_name)
  IN IF hits # {}
     THEN {common_paths(dir, binary_name)[CHOOSE k \in hits : \A h \in hits : k <= h]}
     ELSE search_directory(files, dir, binary_name)

(***************************************************************************)
(* The upstream release feed (EmmyLuaLs/emmylua-analyzer-rust), as the     *)
(* host's latest_github_release and download_file present it.              *)
(***************************************************************************)
\* The canonical forms of the mapping table, written out.
CANON_MAC_AARCH64 == <<"d","a","r","w","i","n","-","a","r","m","6","4",".","t","a","r",".","g","z">>
CANON_MAC_X8664 == <<"d","a","r","w","i","n","-","x","6","4",".","t","a","r",".","g","z">>
CANON_LINUX_AARCH64 == <<"l","i","n","u","x","-","a","a","r","c","h","6","4","-","g","l","i","b","c",".","2",".","1","7",".","t","a","r",".","g","z">>
CANON_LINUX_X8664 == <<"l","i","n","u","x","-","x","6","4","-","g","l","i","b","c",".","2",".","1","7",".","t","a","r",".","g","z">>
CANON_WINDOWS_AARCH64 == <<"w","i","n","3","2","-","a","r","m","6","4",".","z","i","p">>
CANON_WINDOWS_X8664 == <<"w","i","n","3","2","-","x","6","4",".","z","i","p">>
DRIFT_LINUX_AARCH64 == <<"l","i","n","u","x","-","a","a","r","c","h","6","4",".","t","a","r",".","g","z">>
DRIFT_LINUX_X8664 == <<"l","i","n","u","x","-","x","6","4",".","t","a","r",".","g","z">>

\* The asset file names upstream publishes, and the names of a release whose
\* linux assets dropped the glibc suffix (naming drift).
PublishedNames ==
  {ARCHIVE_PREFIX \o c : c \in {CANON_MAC_AARCH64, CANON_MAC_X8664, CANON_LINUX_AARCH64,
                                CANON_LINUX_X8664, CANON_WINDOWS_AARCH64, CANON_WINDOWS_X8664}}
DriftedNames ==
  {ARCHIVE_PREFIX \o c : c \in {CANON_MAC_AARCH64, CANON_MAC_X8664, DRIFT_LINUX_AARCH64,
                                DRIFT_LINUX_X8664, CANON_WINDOWS_AARCH64, CANON_WINDOWS_X8664}}

\* A download url names the release and the asset it serves.
Asset(version, name) ==
  [name |-> name, download_url |-> [version |-> version, name |-> name]]

\* zed::GithubRelease {version, assets}; layout is where the archives of the
\* release keep the binary: a set of directory paths inside the archive, empty
\* when the archive holds no binary at all.
Release(version, names, layout) ==
  [version |-> version, assets |-> {Asset(version, n) : n \in names}, layout |-> layout]

Releases ==
  { Release(V090, PublishedNames, {<<>>}),
    Release(V091, PublishedNames, {<<EMMYLUA_LS, BIN>>}),
    Release(V092, DriftedNames, {}) }

Versions == {r.version : r \in Releases}
ReleaseOf(version) == CHOOSE r \in Releases : r.version = version

\* The files of the archive behind a download url, relative to its root: a
\* README and, per the release's layout, the binary of that release (its
\* content is written as the release's tag).
ArchiveFiles(url) ==
  LET name == IF ends_with(url.name, DOT_ZIP) THEN EMMYLUA_LS_EXE ELSE EMMYLUA_LS
  IN {<<<<README>>, <<>>>>}
       \cup {<<d \o <<name>>, url.version>> : d \in ReleaseOf(url.version).layout}

\* zed::download_file(url, path, file_type), when it succeeds: the archive is
\* extracted below path, over whatever is there.
Extract(files, url, path) ==
  LET new == {<<path \o e[1], e[2]>> : e \in ArchiveFiles(url)}
      newPaths == {e[1] : e \in new}
  IN [q \in DOMAIN files \cup newPaths |->
        IF q \in newPaths THEN (CHOOSE e \in new : e[1] = q)[2] ELSE files[q]]

\* The outcomes of zed::latest_github_release: Err, or Ok(release).
NoRelease == [ok |-> FALSE, version |-> <<>>, assets |-> {}, layout |-> {}]
FetchOutcomes ==
  {NoRelease} \cup
  {[ok |-> TRUE, version |-> r.version, assets |-> r.assets, layout |-> r.layout] :
     r \in Releases}

\* latest_release.assets.iter().find(|asset| asset.name == archive_name)
\*   .map(|asset| asset.download_url.clone())
NoUrl == [version |-> <<>>, name |-> <<>>]
find_download_url(assets, name) ==
  IF \E a \in assets : a.name = name
  THEN [some |-> TRUE, url |-> (CHOOSE a \in assets : a.name = name).download_url]
  ELSE [some |-> FALSE, url |-> NoUrl]

\* (a variant of lock_content with a seeded fault: the two fields written in the other order)
lock_content_swapped(version, current_time) ==
  ToDecimal(current_time) \o <<"\n">> \o version

\* format!("{}\n{}", latest_release.version, current_time)
lock_content(version, current_time) == version \o <<"\n">> \o ToDecimal(current_time)

\* content.split_once('\n').unwrap_or((content.as_str(), ""))
lock_info(content) ==
  LET sp == split_once(content, "\n")
  IN IF sp.some THEN <<sp.left, sp.right>> ELSE <<content, <<>>>>

\* _last_checked: the parsed second field, 0 when it does not parse
last_checked_of(content) ==
  LET ts == parse_u64(trim(lock_info(content)[2]))
  IN IF ts.ok THEN ts.value ELSE 0

\* current_time - _last_checked on u64.  Below zero the subtraction overflows:
\* a build with overflow checks panics, any other build wraps to
\* 2^64 - (b - a), which is above every window the model compares it with.
u64_sub(a, b) ==
  IF a >= b
  THEN {[panic |-> FALSE, wrapped |-> FALSE, value |-> a - b]}
  ELSE {[panic |-> TRUE, wrapped |-> FALSE, value |-> 0],
        [panic |-> FALSE, wrapped |-> TRUE, value |-> b - a]}

\* current_time - _last_checked < 24 * 60 * 60, on an outcome of u64_sub
within_window(d) == ~d.wrapped /\ d.value < Window

(***************************************************************************)
(* State.                                                                  *)
(*   platform  what zed::current_platform() reports: (os, arch)            *)
(*   now       the wall clock, SystemTime::now() in seconds since the epoch*)
(*   fs        the regular files below the working directory               *)
(*   loc       per instance, the position and the locals of its call of    *)
(*             check_and_install_server, with what the call did so far:    *)
(*             log (host primitives and filesystem writes, in order),      *)
(*             downloads (the download_file invocations), fs0 (the         *)
(*             filesystem when the call began), time0 (the clock the call  *)
(*             read for the staleness decision); and of the call of        *)
(*             language_server_command around it: cmd_pc, settings,        *)
(*             command; configuration is what the last call of             *)
(*             language_server_workspace_configuration returned; prev is   *)
(*             what is remembered of the call before this one              *)
(***************************************************************************)
VARIABLES platform, now, fs, loc

vars == <<platform, now, fs, loc>>

NoResult == [kind |-> "none", path |-> <<>>, error |-> ""]

\* What is remembered of the call before this one: whether it asked the
\* release feed, at what time, and the lock's timestamp it had read.
NoPrev == [probed |-> FALSE, same_version |-> FALSE, at |-> 0, last_checked |-> 0]

\* Option<T>
None == [some |-> FALSE, value |-> <<>>]
Some(v) == [some |-> TRUE, value |-> v]

\* LspSettings::for_worktree: Err, or Ok(LspSettings {binary, settings, ..}) with
\* binary: Option<CommandSettings {path: Option<String>, arguments: Option<Vec<String>>}>
\* and settings: Option<serde_json::Value>
NoBinary == [some |-> FALSE, path |-> None, arguments |-> None]
NoSettings == [ok |-> TRUE, binary |-> NoBinary, settings |-> None]

\* Result<Option<Value>> of language_server_workspace_configuration
NoConfiguration == [kind |-> "none", value |-> <<>>]

\* zed::Command {command, args, env}, as the Result of language_server_command
NoCommand == [kind |-> "none", command |-> <<>>, args |-> <<>>, env |-> {}, error |-> ""]

Locals(files) ==
  [pc |-> "idle",
   current_version |-> LATEST,
   last_checked |-> 0,
   out_of_date |-> TRUE,
   release_result |-> NoRelease,
   assets_name |-> <<>>,
   file_type |-> "",
   download_url |-> [some |-> FALSE, url |-> NoUrl],
   found_binary_path |-> <<>>,
   result |-> NoResult,
   log |-> <<>>,
   downloads |-> <<>>,
   fs0 |-> files,
   time0 |-> 0,
   cmd_pc |-> "none",
   settings |-> NoSettings,
   command |-> NoCommand,
   configuration |-> NoConfiguration,
   prev |-> NoPrev]

\* A function from paths to contents, from a set of <<path, content>> pairs.
FsOf(entries) ==
  [p \in {e[1] : e \in entries} |-> (CHOOSE e \in entries : e[1] = p)[2]]

\* The platforms of the controller's runs: one tar.gz platform, one zip
\* platform, and one the asset table does not know.
MainPlatforms == {<<"Linux", "X8664">>, <<"Windows", "X8664">>, <<"Linux", "X86">>}

\* Lock contents a working directory may hold when the extension is loaded:
\* well-formed records, an empty file, and a record with no second line.
InitialLocks ==
  {lock_content(v, t) : v \in Versions, t \in Times} \cup {<<>>, V090}

\* The working directories the extension may be loaded in: with or without a
\* lock file, with or without an installed binary (that of release 0.9.0).
InitialFilesystems(plat) ==
  {FsOf(L \cup B) :
     L \in {{}} \cup {{<<emmylua_update_lock, c>>} : c \in InitialLocks},
     B \in {{}, {<<server_path(plat), V090>>}}}

Init ==
  /\ platform \in MainPlatforms
  /\ now = Epoch0
  /\ fs \in InitialFilesystems(platform)
  /\ loc = [i \in Instances |-> Locals(fs)]

(***************************************************************************)
(* Returns of check_and_install_server.                                    *)
(***************************************************************************)
ReturnOk(l, extra) ==
  [l EXCEPT !.pc = "returned",
            !.log = l.log \o extra,
            !.result = [kind |-> "Ok", path |-> server_path(platform), error |-> ""]]

\* (a variant of ReturnErr with a seeded fault: the status is cleared before the
\* error is returned)
ReturnErr_clearing(l, e) ==
  [l EXCEPT !.pc = "returned",
            !.log = l.log \o <<"status:None">>,
            !.result = [kind |-> "Err", path |-> <<>>, error |-> e]]

ReturnErr(l, e) ==
  [l EXCEPT !.pc = "returned",
            !.result = [kind |-> "Err", path |-> <<>>, error |-> e]]

Panic(l, e) ==
  [l EXCEPT !.pc = "panicked",
            !.result = [kind |-> "panic", path |-> <<>>, error |-> e]]

(***************************************************************************)
(* check_and_install_server, step by step.                                 *)
(***************************************************************************)
\* The host calls language_server_command, which calls check_and_install_server.
Start(i) ==
  /\ loc[i].pc \in {"idle", "returned", "panicked"}
  /\ loc' = [loc EXCEPT ![i] = [Locals(fs) EXCEPT !.pc = "read_lock"]]
  /\ UNCHANGED <<platform, now, fs>>

\* lines 51-77: read the lock, if there is one, and decide out_of_date (a lock
\* that exists is taken to be readable)
ReadLock(i) ==
  /\ loc[i].pc = "read_lock"
  /\ IF is_file(fs, emmylua_update_lock)
     THEN LET content == fs[emmylua_update_lock]
              cv == trim(lock_info(content)[1])
              lc == last_checked_of(content)
          IN \E d \in u64_sub(now, lc) :
               loc' = [loc EXCEPT ![i] =
                 IF d.panic
                 THEN Panic([loc[i] EXCEPT !.current_version = cv,
                                           !.last_checked = lc,
                                           !.time0 = now],
                            "attempt to subtract with overflow")
                 ELSE [loc[i] EXCEPT !.pc = "probe_binary",
                                     !.current_version = cv,
                                     !.last_checked = lc,
                                     !.time0 = now,
                                     !.out_of_date = ~within_window(d)]]
     ELSE loc' = [loc EXCEPT ![i].pc = "probe_binary", ![i].time0 = now]
  /\ UNCHANGED <<platform, now, fs>>

\* lines 79-84: the fast path
ProbeBinary(i) ==
  /\ loc[i].pc = "probe_binary"
  /\ loc' = [loc EXCEPT ![i] =
       IF binary_exists(fs, server_path(platform)) /\ ~loc[i].out_of_date
       THEN ReturnOk(loc[i], <<>>)
       ELSE [loc[i] EXCEPT !.pc = "fetch"]]
  /\ UNCHANGED <<platform, now, fs>>

\* lines 86-97: signal CheckingForUpdate, then ask the host for the latest release
Fetch(i) ==
  /\ loc[i].pc = "fetch"
  /\ \E r \in FetchOutcomes :
       loc' = [loc EXCEPT ![i].pc = "compare",
                          ![i].release_result = r,
                          ![i].log = loc[i].log \o
                            <<"status:CheckingForUpdate", "latest_github_release">>]
  /\ UNCHANGED <<platform, now, fs>>

\* (a variant of up_to_date with a seeded fault: the version compared is the default "latest", as if the
\* lock's first field were never read)
up_to_date_unread_lock(version, current_version, present) ==
  version = LATEST /\ present

\* (a variant of up_to_date with a seeded fault: the stable binary is not probed)
up_to_date_no_probe(version, current_version, present) ==
  version = current_version

\* line 116: latest_release.version == current_version && binary_exists(..)
up_to_date(version, current_version, present) ==
  version = current_version /\ present

\* (a variant of compare_step with a seeded fault: no offline fallback, a failed fetch is always an error)
compare_step_no_fallback(l, present) ==
  IF ~l.release_result.ok
  THEN ReturnErr(l, "Failed to fetch latest release info")
  ELSE IF l.release_result.version = l.current_version /\ present
       THEN ReturnOk(l, <<"status:None">>)
       ELSE [l EXCEPT !.pc = "select_asset"]

\* lines 99-124: the offline fallback and the version compare, on the locals l
\* of the call; present is binary_exists(&server_path)
compare_step(l, present) ==
  IF ~l.release_result.ok
  THEN IF present
       THEN ReturnOk(l, <<"status:None">>)
       ELSE ReturnErr(l, "Failed to fetch latest release info")
  ELSE IF up_to_date(l.release_result.version, l.current_version, present)
       THEN ReturnOk(l, <<"status:None">>)
       ELSE [l EXCEPT !.pc = "select_asset"]

\* (a variant of Compare with a seeded fault: the same-version branch writes the lock again, with
\* the time of the check)
Compare_refreshing(i) ==
  /\ loc[i].pc = "compare"
  /\ LET present == binary_exists(fs, server_path(platform))
         l == loc[i]
     IN /\ loc' = [loc EXCEPT ![i] = compare_step(l, present)]
        /\ fs' = IF l.release_result.ok
                    /\ up_to_date(l.release_result.version, l.current_version, present)
                 THEN WriteFile(fs, emmylua_update_lock,
                                lock_content(l.release_result.version, now))
                 ELSE fs
  /\ UNCHANGED <<platform, now>>

Compare(i) ==
  /\ loc[i].pc = "compare"
  /\ loc' = [loc EXCEPT ![i] =
       compare_step(loc[i], binary_exists(fs, server_path(platform)))]
  /\ UNCHANGED <<platform, now, fs>>

\* lines 126-145: the asset of this platform, then signal Downloading
SelectAsset(i) ==
  /\ loc[i].pc = "select_asset"
  /\ LET l == loc[i]
         pattern == assets_pattern(platform)
     IN loc' = [loc EXCEPT ![i] =
          IF ~pattern.ok
          THEN ReturnErr(l, "unsupported platform/architecture")
          ELSE [l EXCEPT !.pc = "download",
                         !.assets_name = pattern.value,
                         !.download_url =
                           find_download_url(l.release_result.assets,
                                             archive_name(pattern.value)),
                         !.file_type = file_type(pattern.value),
                         !.log = l.log \o <<"status:Downloading">>]]
  /\ UNCHANGED <<platform, now, fs>>

\* line 148: download_url.unwrap(), then the host's download_file, which may fail
\* (a failed download is taken to leave no file behind)
Download(i) ==
  /\ loc[i].pc = "download"
  /\ LET l == loc[i]
         path == archive_path(l.release_result.version)
     IN IF ~l.download_url.some
        THEN /\ loc' = [loc EXCEPT ![i] =
                  Panic(l, "called Option::unwrap() on a None value")]
             /\ fs' = fs
        ELSE \E ok \in BOOLEAN :
               LET called == [l EXCEPT
                     !.log = l.log \o <<"download_file">>,
                     !.downloads = l.downloads \o
                       << [url |-> l.download_url.url, path |-> path,
                           file_type |-> l.file_type] >>]
               IN IF ok
                  THEN /\ fs' = Extract(fs, l.download_url.url, path)
                       /\ loc' = [loc EXCEPT ![i] = [called EXCEPT !.pc = "locate"]]
                  ELSE /\ fs' = fs
                       /\ loc' = [loc EXCEPT ![i] = ReturnErr(called, "download_file failed")]
  /\ UNCHANGED <<platform, now>>

\* line 151: find_binary_recursively("./tmp", binary_name)
Locate(i) ==
  /\ loc[i].pc = "locate"
  /\ LET found == find_binary_recursively(fs, <<TMP>>, get_binary_name(platform))
     IN IF found = {}
        THEN loc' = [loc EXCEPT ![i] = ReturnErr(loc[i], "Failed to find binary")]
        ELSE \E p \in found :
               loc' = [loc EXCEPT ![i].pc = "install", ![i].found_binary_path = p]
  /\ UNCHANGED <<platform, now, fs>>

\* lines 154-157: create ./bin and copy the binary found onto the stable path;
\* either may fail, and then no file has changed (directories are not files).
\* A source that is no longer there (removed since it was located) fails the copy.
Install(i) ==
  /\ loc[i].pc = "install"
  /\ LET l == loc[i]
     IN IF l.found_binary_path # server_path(platform)
        THEN \E ok \in BOOLEAN :
               IF ok /\ is_file(fs, l.found_binary_path)
               THEN /\ fs' = WriteFile(fs, server_path(platform), fs[l.found_binary_path])
                    /\ loc' = [loc EXCEPT ![i].pc = "cleanup",
                                          ![i].log = l.log \o <<"create_dir_all", "copy">>]
               ELSE /\ fs' = fs
                    /\ loc' = [loc EXCEPT ![i] =
                         ReturnErr(l, IF is_file(fs, l.found_binary_path)
                                      THEN "create_dir_all or copy failed"
                                      ELSE "copy failed: No such file or directory")]
        ELSE /\ fs' = fs
             /\ loc' = [loc EXCEPT ![i].pc = "cleanup"]
  /\ UNCHANGED <<platform, now>>

\* (a variant of Cleanup with a seeded fault: all of ./tmp is removed, the lock with it)
Cleanup_whole_tmp(i) ==
  /\ loc[i].pc = "cleanup"
  /\ \E ok \in BOOLEAN :
       fs' = IF ok THEN RemoveDirAll(fs, <<TMP>>) ELSE fs
  /\ loc' = [loc EXCEPT ![i].pc = "write_lock",
                        ![i].log = loc[i].log \o <<"remove_dir_all">>]
  /\ UNCHANGED <<platform, now>>

\* line 160: remove the extraction directory; a failure is ignored
Cleanup(i) ==
  /\ loc[i].pc = "cleanup"
  /\ \E ok \in BOOLEAN :
       fs' = IF ok THEN RemoveDirAll(fs, archive_path(loc[i].release_result.version))
                   ELSE fs
  /\ loc' = [loc EXCEPT ![i].pc = "write_lock",
                        ![i].log = loc[i].log \o <<"remove_dir_all">>]
  /\ UNCHANGED <<platform, now>>

\* lines 163-168: write the lock with the time read now; a failure is an error
WriteLock(i) ==
  /\ loc[i].pc = "write_lock"
  /\ LET l == loc[i]
     IN \E ok \in BOOLEAN :
          IF ok
          THEN /\ fs' = WriteFile(fs, emmylua_update_lock,
                                  lock_content(l.release_result.version, now))
               /\ loc' = [loc EXCEPT ![i].pc = "finish",
                                     ![i].log = l.log \o <<"write">>]
          ELSE /\ fs' = fs
               /\ loc' = [loc EXCEPT ![i] = ReturnErr(l, "write failed")]
  /\ UNCHANGED <<platform, now>>

\* (a variant of Finish with a seeded fault: the stable path is returned with the status left as it is)
Finish_silent(i) ==
  /\ loc[i].pc = "finish"
  /\ loc' = [loc EXCEPT ![i] = ReturnOk(loc[i], <<>>)]
  /\ UNCHANGED <<platform, now, fs>>

\* lines 170-175: signal None and return the stable path
Finish(i) ==
  /\ loc[i].pc = "finish"
  /\ loc' = [loc EXCEPT ![i] = ReturnOk(loc[i], <<"status:None">>)]
  /\ UNCHANGED <<platform, now, fs>>

\* The wall clock is not monotonic and moves at any time; only its value at the
\* two reads of SystemTime::now() (lines 68 and 163) is ever seen, so it is
\* stepped right before them.
ClockStep ==
  /\ \E i \in Instances : loc[i].pc \in {"read_lock", "write_lock"}
  /\ \E t \in Times \ {now} : now' = t
  /\ UNCHANGED <<platform, fs, loc>>

Step(i) ==
  \/ Start(i)
  \/ ReadLock(i)
  \/ ProbeBinary(i)
  \/ Fetch(i)
  \/ Compare(i)
  \/ SelectAsset(i)
  \/ Download(i)
  \/ Locate(i)
  \/ Install(i)
  \/ Cleanup(i)
  \/ WriteLock(i)
  \/ Finish(i)

\* One instance of the extension: the host runs each callback to completion.
Next == ClockStep \/ Step(1)

Spec == Init /\ [][Next]_vars

(***************************************************************************)
(* The vocabulary of the properties, from the data model of the design:    *)
(* the stable install path, the two fields of the lock record, and what a  *)
(* call has done when it ended.                                            *)
(***************************************************************************)
\* ./bin/emmylua_ls.exe on windows, ./bin/emmylua_ls elsewhere
StablePath ==
  IF platform[1] = "Windows"
  THEN <<BIN, <<"e","m","m","y","l","u","a","_","l","s",".","e","x","e">>>>
  ELSE <<BIN, <<"e","m","m","y","l","u","a","_","l","s">>>>

StablePresent(files) == StablePath \in DOMAIN files

LockPath == <<TMP, LOCK_NAME>>
LockPresent(files) == LockPath \in DOMAIN files

RECURSIVE FirstLine(_)
FirstLine(s) ==
  IF s = <<>> \/ Head(s) = "\n" THEN <<>> ELSE <<Head(s)>> \o FirstLine(Tail(s))

RECURSIVE AfterFirstLine(_)
AfterFirstLine(s) ==
  IF s = <<>> THEN <<>>
  ELSE IF Head(s) = "\n" THEN Tail(s) ELSE AfterFirstLine(Tail(s))

\* Line 1 of the lock record; the sentinel "latest" when there is no lock.
RecordVersion(files) ==
  IF LockPresent(files) THEN FirstLine(files[LockPath]) ELSE LATEST

\* Line 2 of the lock record in seconds; 0 when absent or unparsable.
RecordTimestamp(files) ==
  IF LockPresent(files)
  THEN LET t == parse_u64(trim(AfterFirstLine(files[LockPath])))
       IN IF t.ok THEN t.value ELSE 0
  ELSE 0

Ended(i) == loc[i].pc \in {"returned", "panicked"}
Succeeded(i) == loc[i].pc = "returned" /\ loc[i].result.kind = "Ok"
Failed(i) == loc[i].pc = "returned" /\ loc[i].result.kind = "Err"
PastGate(i) == loc[i].pc \notin {"idle", "read_lock"}
Fetched(i) == \E k \in 1..Len(loc[i].log) : loc[i].log[k] = "latest_github_release"
Has(i, entry) == \E k \in 1..Len(loc[i].log) : loc[i].log[k] = entry

\* The call selected a release: the metadata fetch succeeded.
Selected(i) == Fetched(i) /\ loc[i].release_result.ok

\* The canonical form of the mapping table for the platform, <<>> when the
\* table has no row for it.
Canonical(plat) ==
  CASE plat = <<"Mac", "Aarch64">> -> CANON_MAC_AARCH64
    [] plat = <<"Mac", "X8664">> -> CANON_MAC_X8664
    [] plat = <<"Linux", "Aarch64">> -> CANON_LINUX_AARCH64
    [] plat = <<"Linux", "X8664">> -> CANON_LINUX_X8664
    [] plat = <<"Windows", "Aarch64">> -> CANON_WINDOWS_AARCH64
    [] plat = <<"Windows", "X8664">> -> CANON_WINDOWS_X8664
    [] OTHER -> <<>>

Supported(plat) == Canonical(plat) # <<>>

\* The release of the call carries the asset named "emmylua_ls-<canonical form>".
AssetPublished(i) ==
  \E a \in loc[i].release_result.assets :
     a.name = <<"e","m","m","y","l","u","a","_","l","s","-">> \o Canonical(platform)

\* The release selected differs from what the lock recorded when the call
\* began, or there was no stable binary then: an install is required.
InstallRequired(i) ==
  /\ Selected(i)
  /\ \/ loc[i].release_result.version # RecordVersion(loc[i].fs0)
     \/ ~StablePresent(loc[i].fs0)

(***************************************************************************)
(* C1.  Fast path: a call that finds the stable binary and a lock whose    *)
(* timestamp satisfies now - last_checked < 86400 returns the stable path  *)
(* with no metadata fetch, no status signal and no file written.           *)
(* The code refutes it for a timestamp ahead of the clock (see C10).       *)
(***************************************************************************)
FastPathDue(i) ==
  /\ PastGate(i)
  /\ StablePresent(loc[i].fs0)
  /\ loc[i].time0 - RecordTimestamp(loc[i].fs0) < Window

FastPathTaken(i) ==
  /\ Succeeded(i)
  /\ loc[i].result.path = StablePath
  /\ loc[i].log = <<>>
  /\ loc[i].downloads = <<>>
  /\ fs = loc[i].fs0

\* C1: a call that finds the stable binary and now - last_checked < 86400 takes
\* the fast path: Ok(stable path), nothing fetched, signalled or written.
C1_FastPath ==
  \A i \in Instances :
    FastPathDue(i) => (loc[i].pc = "probe_binary" \/ FastPathTaken(i))

\* C1 restricted to timestamps not ahead of the clock: this much the code does.
C1_FastPathNotAhead ==
  \A i \in Instances :
    (FastPathDue(i) /\ RecordTimestamp(loc[i].fs0) <= loc[i].time0)
      => (loc[i].pc = "probe_binary" \/ FastPathTaken(i))

(***************************************************************************)
(* C2.  After every successful return the stable install path is a regular *)
(* file, and when the call selected a release the version field of the     *)
(* lock record equals that release's version.                              *)
(***************************************************************************)
\* C2: a call that returned Ok left the stable path a regular file and, if it
\* selected a release, the lock's version equal to that release's.
C2_SuccessPostcondition ==
  \A i \in Instances :
    Succeeded(i) =>
      /\ StablePresent(fs)
      /\ loc[i].result.path = StablePath
      /\ Selected(i) => RecordVersion(fs) = loc[i].release_result.version

\* A call that downloaded, installed and wrote the lock has returned Ok.
C2_Witness ==
  /\ Succeeded(1)
  /\ Has(1, "write")
  /\ ~StablePresent(loc[1].fs0)
  /\ RecordVersion(fs) = V091

(***************************************************************************)
(* C3.  When the release selected requires an install and carries no asset *)
(* named exactly "emmylua_ls-<canonical form>", the call ends Failed with  *)
(* an error value (AssetMissing): it does not abort, and it never invokes  *)
(* the download primitive.  The code aborts instead.                       *)
(***************************************************************************)
\* C3: with an install required and the expected asset missing, the call ends
\* with an error value and has not invoked the download primitive.
C3_AssetMissingIsAnError ==
  \A i \in Instances :
    (Ended(i) /\ Supported(platform) /\ InstallRequired(i) /\ ~AssetPublished(i))
      => (Failed(i) /\ loc[i].downloads = <<>>)

(***************************************************************************)
(* C4.  Offline tolerance: when the metadata fetch fails, a call that had  *)
(* a stable binary returns its path with the status cleared to None and    *)
(* the filesystem as it was; one that had none returns the error of the    *)
(* release lookup, downloads nothing and writes nothing.                   *)
(***************************************************************************)
\* C4: a call whose fetch failed returned the existing binary with status None,
\* or the lookup error when there was none, and changed no file.
C4_OfflineTolerance ==
  \A i \in Instances :
    (Ended(i) /\ Fetched(i) /\ ~loc[i].release_result.ok) =>
      /\ loc[i].downloads = <<>>
      /\ fs = loc[i].fs0
      /\ IF StablePresent(loc[i].fs0)
         THEN /\ Succeeded(i)
              /\ loc[i].result.path = StablePath
              /\ loc[i].log =
                   <<"status:CheckingForUpdate", "latest_github_release", "status:None">>
         ELSE /\ Failed(i)
              /\ loc[i].result.error = "Failed to fetch latest release info"
              /\ loc[i].log = <<"status:CheckingForUpdate", "latest_github_release">>

\* A call whose fetch failed has returned the binary of a stale lock.
C4_Witness ==
  /\ Succeeded(1)
  /\ Fetched(1)
  /\ ~loc[1].release_result.ok
  /\ LockPresent(fs)
  /\ StablePresent(fs)

(***************************************************************************)
(* C5.  Same-version branch: when the release fetched has the version the  *)
(* lock records and the stable binary is present, the call returns the     *)
(* stable path with the status cleared to None, downloads nothing, and     *)
(* leaves the lock (version and timestamp), the binary and ./tmp as they   *)
(* were.                                                                   *)
(***************************************************************************)
SameVersion(i) ==
  /\ Selected(i)
  /\ StablePresent(loc[i].fs0)
  /\ LockPresent(loc[i].fs0)
  /\ loc[i].release_result.version = RecordVersion(loc[i].fs0)

\* C5: a call that fetched the version the lock records, the binary present,
\* returned the stable path with status None and changed no file.
C5_SameVersionFrame ==
  \A i \in Instances :
    (Ended(i) /\ SameVersion(i)) =>
      /\ Succeeded(i)
      /\ loc[i].result.path = StablePath
      /\ loc[i].log =
           <<"status:CheckingForUpdate", "latest_github_release", "status:None">>
      /\ loc[i].downloads = <<>>
      /\ fs = loc[i].fs0

\* Such a call, its lock a full window old, has ended.
C5_Witness ==
  /\ Ended(1)
  /\ SameVersion(1)
  /\ loc[1].time0 - RecordTimestamp(loc[1].fs0) >= Window

(***************************************************************************)
(* C6.  Download decision: on a supported platform, with the expected      *)
(* asset published, a call invokes the download primitive exactly once,    *)
(* with target ./tmp/emmylua_ls-<release.version>, if the fetch succeeded  *)
(* and the release differs from the lock's version ("latest" when there is *)
(* no lock) or the stable binary is absent, and not at all otherwise; so a *)
(* first run with no lock downloads even when a binary is present.         *)
(***************************************************************************)
DownloadedOnce(i) ==
  /\ Len(loc[i].downloads) = 1
  /\ loc[i].downloads[1].path =
       <<TMP, <<"e","m","m","y","l","u","a","_","l","s","-">> \o loc[i].release_result.version>>
  /\ Len(SelectSeq(loc[i].log, LAMBDA e : e = "download_file")) = 1

\* C6: the download primitive is invoked once, with the release's extraction
\* directory, exactly when an install is required; always on a run with no lock.
C6_DownloadDecision ==
  \A i \in Instances :
    (Ended(i) /\ Supported(platform) /\ (Selected(i) => AssetPublished(i))) =>
      /\ IF InstallRequired(i) THEN DownloadedOnce(i) ELSE loc[i].downloads = <<>>
      /\ (Selected(i) /\ ~LockPresent(loc[i].fs0)) => DownloadedOnce(i)

\* A first run with no lock and a binary present has downloaded.
C6_Witness ==
  /\ Ended(1)
  /\ ~LockPresent(loc[1].fs0)
  /\ StablePresent(loc[1].fs0)
  /\ DownloadedOnce(1)

(***************************************************************************)
(* C9.  Wrapped archive layout.  As claimed: a binary extracted to         *)
(* ./tmp/emmylua_ls-<version>/emmylua_ls/bin/<bin> is found through the    *)
(* third entry of the common-path candidate list, not through the scan.    *)
(* The code probes the candidates below ./tmp, not below the extraction    *)
(* directory (and <root>/emmylua_ls/bin/<bin> is the fourth of them), so   *)
(* none of them names that file.                                           *)
(***************************************************************************)
BinaryName == StablePath[2]

\* The four candidates of the locator rooted at ./tmp, written out.
Candidates ==
  << <<TMP, BinaryName>>,
     <<TMP, BIN, BinaryName>>,
     <<TMP, EMMYLUA_LS, BinaryName>>,
     <<TMP, EMMYLUA_LS, BIN, BinaryName>> >>

ExtractionDir(i) ==
  <<TMP, <<"e","m","m","y","l","u","a","_","l","s","-">> \o loc[i].release_result.version>>

WrappedPath(i) == ExtractionDir(i) \o <<EMMYLUA_LS, BIN, BinaryName>>

\* The download of this call succeeded.
DownloadOk(i) ==
  Has(i, "download_file") /\ loc[i].result.error # "download_file failed"

\* The call extracted a release whose archive keeps the binary in emmylua_ls/bin/,
\* and its locate step is over.
WrappedLocated(i) ==
  /\ DownloadOk(i)
  /\ loc[i].release_result.layout = {<<EMMYLUA_LS, BIN>>}
  /\ loc[i].pc # "locate"

\* The binaries other extraction directories held below ./tmp when the call began.
OtherBinaries(i) ==
  {p \in DOMAIN loc[i].fs0 :
     /\ p[1] = TMP
     /\ p[Len(p)] = BinaryName
     /\ ~IsPrefix(ExtractionDir(i), p)}

\* C9 as claimed: the wrapped binary is found through the third candidate.
C9_ThirdCommonPath ==
  \A i \in Instances :
    WrappedLocated(i) =>
      /\ loc[i].found_binary_path = WrappedPath(i)
      /\ loc[i].found_binary_path = Candidates[3]

\* C9 as amended: the locate step does not fail and finds a binary through the
\* fallback scan of ./tmp, no candidate being a regular file; the path found is
\* the wrapped one when no other extraction directory holds a binary; and the
\* call ends in success unless creating ./bin, the copy or the lock write fails.
C9_WrappedFoundByScan ==
  \A i \in Instances :
    WrappedLocated(i) =>
      /\ loc[i].result.error # "Failed to find binary"
      /\ \A k \in 1..4 : Candidates[k] \notin DOMAIN fs
                         /\ Candidates[k] # loc[i].found_binary_path
      /\ loc[i].found_binary_path \in {WrappedPath(i)} \cup OtherBinaries(i)
      /\ Ended(i) =>
           \/ Succeeded(i) /\ StablePresent(fs) /\ Has(i, "copy")
           \/ Failed(i) /\ loc[i].result.error \in
                {"create_dir_all or copy failed", "write failed"}

\* A cold install of the wrapped release has succeeded with the wrapped path.
C9_Witness ==
  /\ Succeeded(1)
  /\ WrappedLocated(1)
  /\ loc[1].fs0 = <<>>
  /\ loc[1].found_binary_path = WrappedPath(1)
  /\ fs[StablePath] = loc[1].release_result.version

(***************************************************************************)
(* The platform descriptor on every platform the host can report: the      *)
(* controller with the clock at rest.                                      *)
(***************************************************************************)
InitPlatform ==
  /\ platform \in Platforms
  /\ now = Epoch0
  /\ fs \in InitialFilesystems(platform)
  /\ loc = [i \in Instances |-> Locals(fs)]

NextPlatform == Step(1)

SpecPlatform == InitPlatform /\ [][NextPlatform]_vars

\* The call is past its asset selection (lines 126-145).
Described(i) ==
  loc[i].pc \in {"download", "locate", "install", "cleanup", "write_lock", "finish"}
  \/ (Ended(i) /\ Has(i, "status:Downloading"))

(***************************************************************************)
(* C7.  Platform Descriptor: on each of the six supported (os, arch) pairs *)
(* assets_pattern yields the canonical form of the mapping table, on every *)
(* other pair the host can report it yields the unsupported-platform       *)
(* error, and the archive kind derived from the result is zip exactly on   *)
(* windows.                                                                *)
(***************************************************************************)
\* C7: past the asset selection the pattern is the table's canonical form and
\* the archive kind is zip exactly on windows; an unsupported pair is an error.
C7_PlatformDescriptor ==
  \A i \in Instances :
    /\ Described(i) =>
         /\ Supported(platform)
         /\ loc[i].assets_name = Canonical(platform)
         /\ loc[i].file_type = (IF platform[1] = "Windows" THEN "Zip" ELSE "GzipTar")
    /\ (Ended(i) /\ InstallRequired(i) /\ ~Supported(platform)) =>
         /\ Failed(i)
         /\ loc[i].result.error = "unsupported platform/architecture"
         /\ loc[i].assets_name = <<>>
    /\ loc[i].result.error = "unsupported platform/architecture" =>
         ~Supported(platform)

\* linux/aarch64 has selected its asset.
C7_Witness ==
  /\ platform = <<"Linux", "Aarch64">>
  /\ loc[1].pc = "download"
  /\ loc[1].assets_name = CANON_LINUX_AARCH64
  /\ loc[1].file_type = "GzipTar"
  /\ loc[1].download_url.some

(***************************************************************************)
(* The binary locator on directory trees: find_binary_recursively applied  *)
(* to each tree of a bounded family below ./tmp.                           *)
(***************************************************************************)
MaxTreeFiles == 4

\* The places a tree may keep a file: the four candidates, two extraction
\* directories, a directory that bears the binary's name, and other files.
TreePaths(plat) ==
  LET b == get_binary_name(plat)
  IN { <<TMP, b>>, <<TMP, BIN, b>>, <<TMP, EMMYLUA_LS, b>>, <<TMP, EMMYLUA_LS, BIN, b>>,
       <<TMP, ARCHIVE_PREFIX \o V090, b>>,
       <<TMP, ARCHIVE_PREFIX \o V091, EMMYLUA_LS, BIN, b>>,
       <<TMP, b, README>>,
       <<TMP, BIN, README>>,
       <<TMP, LOCK_NAME>> }

\* No file of a tree lies below another file of it.
PrefixFree(paths) ==
  \A p \in paths, q \in paths : (p # q) => ~IsPrefix(p, q)

LocatorTrees(plat) ==
  {FsOf({<<p, p[Len(p)]>> : p \in paths}) :
     paths \in {t \in SUBSET TreePaths(plat) :
                  Cardinality(t) <= MaxTreeFiles /\ PrefixFree(t)}}

InitLocator ==
  /\ platform \in {<<"Linux", "X8664">>, <<"Windows", "X8664">>}
  /\ now = Epoch0
  /\ fs \in LocatorTrees(platform)
  /\ loc = [i \in Instances |->
             IF i = 1 THEN [Locals(fs) EXCEPT !.pc = "locate"] ELSE Locals(fs)]

NextLocator == Locate(1)

SpecLocator == InitLocator /\ [][NextLocator]_vars

(***************************************************************************)
(* C8.  Binary Locator preference order: find returns the first of         *)
(* root/<bin>, root/bin/<bin>, root/emmylua_ls/<bin>,                      *)
(* root/emmylua_ls/bin/<bin> that is a regular file, whatever other files  *)
(* named <bin> the tree holds; the scan is used only when none of the four *)
(* is a regular file.                                                      *)
(***************************************************************************)
CandidateFiles == {k \in 1..4 : Candidates[k] \in DOMAIN fs}

ScanFiles ==
  {p \in DOMAIN fs : Len(p) > 1 /\ p[1] = TMP /\ p[Len(p)] = BinaryName}

\* C8: the locator returned the first candidate that is a regular file, and a
\* scanned file (or NotFound) only when no candidate is one.
C8_LocatorPreference ==
  \A i \in Instances :
    loc[i].pc \in {"install", "returned"} =>
      IF CandidateFiles # {}
      THEN /\ loc[i].pc = "install"
           /\ \E k \in CandidateFiles :
                /\ \A h \in CandidateFiles : k <= h
                /\ loc[i].found_binary_path = Candidates[k]
      ELSE IF ScanFiles # {}
           THEN loc[i].pc = "install" /\ loc[i].found_binary_path \in ScanFiles
           ELSE Failed(i) /\ loc[i].result.error = "Failed to find binary"

\* Two candidates and a binary elsewhere: the earlier candidate was returned.
C8_Witness ==
  /\ loc[1].pc = "install"
  /\ CandidateFiles = {1, 2}
  /\ ScanFiles \ {Candidates[1], Candidates[2]} # {}
  /\ loc[1].found_binary_path = Candidates[1]

(***************************************************************************)
(* The update gate on lock contents: the read of the lock (lines 51-77)    *)
(* applied to a bounded family of contents, at every clock value.          *)
(***************************************************************************)
\* Second fields: decimal times, signed, padded, followed by a third line, not
\* a number, empty.
GateStamps ==
  {<<>>, <<"x">>, <<"-","1">>, <<"0">>, <<" ">>}
  \cup {ToDecimal(t) : t \in Times}
  \cup {<<"+">> \o ToDecimal(t) : t \in Times}
  \cup {<<" ">> \o ToDecimal(t) \o <<"\r","\n">> : t \in Times}
  \cup {ToDecimal(t) \o <<"\n","1">> : t \in Times}

GateLocks ==
  {v \o sep \o ts :
     v \in {<<>>, V090, <<" ">> \o V091 \o <<" ">>},
     sep \in {<<>>, <<"\n">>},
     ts \in GateStamps}

InitGate ==
  /\ platform = <<"Linux", "X8664">>
  /\ now = Epoch0
  /\ fs \in {FsOf(L \cup B) :
               L \in {{}} \cup {{<<emmylua_update_lock, c>>} : c \in GateLocks},
               B \in {{}, {<<server_path(platform), V090>>}}}
  /\ loc = [i \in Instances |-> Locals(fs)]

NextGate == ClockStep \/ Start(1) \/ ReadLock(1)

SpecGate == InitGate /\ [][NextGate]_vars

(***************************************************************************)
(* C10.  Update Gate totality: for every lock content and every value of   *)
(* now, a recorded timestamp ahead of now included, loading the lock never *)
(* fails and the staleness decision is exactly now - last_checked >= 86400,*)
(* an absent or unparsable timestamp counting as 0.  The code subtracts on *)
(* u64: with the timestamp ahead of now it overflows.                      *)
(***************************************************************************)
\* C10: reading the lock never aborts, and out_of_date is exactly
\* now - last_checked >= 86400.
C10_GateTotal ==
  \A i \in Instances :
    PastGate(i) =>
      /\ loc[i].pc # "panicked"
      /\ loc[i].out_of_date =
           (loc[i].time0 - RecordTimestamp(loc[i].fs0) >= Window)

\* C10 restricted to timestamps not ahead of the clock: this much the code does.
C10_GateNotAhead ==
  \A i \in Instances :
    (PastGate(i) /\ RecordTimestamp(loc[i].fs0) <= loc[i].time0) =>
      /\ loc[i].pc # "panicked"
      /\ loc[i].last_checked = RecordTimestamp(loc[i].fs0)
      /\ loc[i].out_of_date =
           (loc[i].time0 - RecordTimestamp(loc[i].fs0) >= Window)

(***************************************************************************)
(* C11.  Unsupported platform.  As claimed: on a pair with no asset        *)
(* mapping every call returns the unsupported-platform error, whatever the *)
(* filesystem holds.  The code asks for the asset pattern only when an     *)
(* install is required (line 126): a call that finds a binary and a fresh  *)
(* lock, a failed fetch or the lock's version returns the stable path.     *)
(***************************************************************************)
UnsupportedError(i) ==
  Failed(i) /\ loc[i].result.error = "unsupported platform/architecture"

\* C11 as claimed: on an unsupported pair every call that ended returned the
\* unsupported-platform error, downloaded nothing and wrote nothing.
C11_UnsupportedAlwaysError ==
  \A i \in Instances :
    (Ended(i) /\ ~Supported(platform)) =>
      /\ UnsupportedError(i)
      /\ loc[i].downloads = <<>>
      /\ fs = loc[i].fs0

\* C11 as amended: on an unsupported pair no call invokes the download primitive
\* or writes a file; a call that requires an install returns the
\* unsupported-platform error; any other call returns the stable path of the
\* binary it found or the error of the release lookup.
C11_UnsupportedAtSelection ==
  \A i \in Instances :
    ~Supported(platform) =>
      /\ loc[i].downloads = <<>>
      /\ ~Has(i, "download_file")
      /\ ~Has(i, "status:Downloading")
      /\ fs = loc[i].fs0
      /\ (Ended(i) /\ InstallRequired(i)) => UnsupportedError(i)
      /\ Succeeded(i) => (StablePresent(loc[i].fs0) /\ loc[i].result.path = StablePath)
      /\ (Failed(i) /\ ~UnsupportedError(i)) =>
           (~loc[i].release_result.ok /\ ~StablePresent(loc[i].fs0))

\* On linux/x86 a call that found a binary of another release than the one
\* fetched has returned the unsupported-platform error.
C11_Witness ==
  /\ platform = <<"Linux", "X86">>
  /\ UnsupportedError(1)
  /\ StablePresent(loc[1].fs0)
  /\ LockPresent(loc[1].fs0)
  /\ fs = loc[1].fs0

(***************************************************************************)
(* language_server_command (lines 258-305): the host's callback around     *)
(* check_and_install_server.                                               *)
(***************************************************************************)
DASH_C == <<"-","c">>
STDIO == <<"s","t","d","i","o">>
LOG_LEVEL == <<"-","-","l","o","g","-","l","e","v","e","l">>
ERROR == <<"e","r","r","o","r">>
LOGS == <<"l","o","g","s">>

\* What the user may have written under lsp.<server>.binary: a path, arguments.
BinaryPaths == {None, Some(<<<<"o","p","t">>, EMMYLUA_LS>>)}
BinaryArguments == {None, Some(<<>>), Some(<< <<"-","-","v","e","r","b","o","s","e">> >>)}

\* The outcomes of LspSettings::for_worktree.
SettingsOutcomes ==
  {[ok |-> FALSE, binary |-> NoBinary, settings |-> None], NoSettings}
  \cup {[ok |-> TRUE, binary |-> [some |-> TRUE, path |-> p, arguments |-> a],
         settings |-> None] :
          p \in BinaryPaths, a \in BinaryArguments}

\* Option::unwrap_or_else
unwrap_or(opt, default) == IF opt.some THEN opt.value ELSE default

CommandOk(l, command, args) ==
  [l EXCEPT !.cmd_pc = "done",
            !.command = [kind |-> "Ok", command |-> command, args |-> args,
                         env |-> {}, error |-> ""]]

CommandErr(l, e) ==
  [l EXCEPT !.cmd_pc = "done",
            !.command = [kind |-> "Err", command |-> <<>>, args |-> <<>>,
                         env |-> {}, error |-> e]]

\* lines 266-275: the arm taken when settings.binary is Some
custom_command(binary) ==
  [command |-> unwrap_or(binary.path, <<EMMYLUA_LS>>),
   args |-> unwrap_or(binary.arguments, <<>>)]

\* lines 263-278: the host calls language_server_command (a first time, or again
\* once the previous call returned or aborted); it reads the settings, returns a
\* custom binary at once and otherwise enters check_and_install_server
CommandStart(i) ==
  /\ loc[i].cmd_pc \in {"none", "done"} \/ loc[i].pc = "panicked"
  /\ \E st \in SettingsOutcomes :
       LET l == [Locals(fs) EXCEPT !.settings = st]
       IN loc' = [loc EXCEPT ![i] =
            IF ~st.ok
            THEN CommandErr(l, "for_worktree failed")
            ELSE IF st.binary.some
                 THEN CommandOk(l, custom_command(st.binary).command,
                                custom_command(st.binary).args)
                 ELSE [l EXCEPT !.pc = "read_lock", !.cmd_pc = "bootstrap"]]
  /\ UNCHANGED <<platform, now, fs>>

\* (a variant of VerifyBinary with a seeded fault: the path returned is not checked)
VerifyBinary_unchecked(i) ==
  /\ loc[i].cmd_pc = "bootstrap"
  /\ loc[i].pc = "returned"
  /\ LET l == loc[i]
     IN loc' = [loc EXCEPT ![i] =
          IF l.result.kind = "Err"
          THEN CommandErr(l, l.result.error)
          ELSE [l EXCEPT !.cmd_pc = "make_file_executable",
                         !.log = l.log \o <<"binary_exists">>]]
  /\ UNCHANGED <<platform, now, fs>>

\* lines 278-286: the error of check_and_install_server is passed on; the path it
\* returned is verified to be a regular file
VerifyBinary(i) ==
  /\ loc[i].cmd_pc = "bootstrap"
  /\ loc[i].pc = "returned"
  /\ LET l == loc[i]
     IN loc' = [loc EXCEPT ![i] =
          IF l.result.kind = "Err"
          THEN CommandErr(l, l.result.error)
          ELSE IF ~binary_exists(fs, l.result.path)
               THEN CommandErr(l, "Binary not found at expected path")
               ELSE [l EXCEPT !.cmd_pc = "make_file_executable",
                              !.log = l.log \o <<"binary_exists">>]]
  /\ UNCHANGED <<platform, now, fs>>

\* line 289: the host's make_file_executable, which may fail
MakeFileExecutable(i) ==
  /\ loc[i].cmd_pc = "make_file_executable"
  /\ LET l == loc[i]
     IN \E ok \in BOOLEAN :
          loc' = [loc EXCEPT ![i] =
            IF ok
            THEN [l EXCEPT !.cmd_pc = "create_logs",
                           !.log = l.log \o <<"make_file_executable">>]
            ELSE CommandErr(l, "make_file_executable failed")]
  /\ UNCHANGED <<platform, now, fs>>

\* server_path.parent().unwrap().parent().unwrap().join("logs")
log_dir(path) == SubSeq(path, 1, Len(path) - 2) \o <<LOGS>>

\* lines 292-304: create ./logs, which may fail, and return the launch command
CreateLogs(i) ==
  /\ loc[i].cmd_pc = "create_logs"
  /\ LET l == loc[i]
     IN \E ok \in BOOLEAN :
          loc' = [loc EXCEPT ![i] =
            IF ok
            THEN CommandOk([l EXCEPT !.log = l.log \o
                              << IF log_dir(l.result.path) = <<LOGS>>
                                 THEN "create_dir_all:logs"
                                 ELSE "create_dir_all:elsewhere" >>],
                           l.result.path, <<DASH_C, STDIO, LOG_LEVEL, ERROR>>)
            ELSE CommandErr(l, "create_dir_all failed")]
  /\ UNCHANGED <<platform, now, fs>>

\* The user, or anything else outside the extension, removes the installed
\* binary once check_and_install_server has returned.
RemoveBinary ==
  /\ \E i \in Instances : loc[i].cmd_pc = "bootstrap" /\ loc[i].pc = "returned"
  /\ binary_exists(fs, server_path(platform))
  /\ fs' = [q \in DOMAIN fs \ {server_path(platform)} |-> fs[q]]
  /\ UNCHANGED <<platform, now, loc>>

\* check_and_install_server as language_server_command runs it
Bootstrap(i) ==
  \/ ReadLock(i)
  \/ ProbeBinary(i)
  \/ Fetch(i)
  \/ Compare(i)
  \/ SelectAsset(i)
  \/ Download(i)
  \/ Locate(i)
  \/ Install(i)
  \/ Cleanup(i)
  \/ WriteLock(i)
  \/ Finish(i)

language_server_command(i) ==
  \/ CommandStart(i)
  \/ Bootstrap(i)
  \/ VerifyBinary(i)
  \/ MakeFileExecutable(i)
  \/ CreateLogs(i)

NextCommand == language_server_command(1) \/ RemoveBinary

SpecCommand == Init /\ [][NextCommand]_vars

(***************************************************************************)
(* C12.  Custom binary override.  As claimed: the bootstrap is bypassed    *)
(* exactly when the settings carry binary.path; a binary section without a *)
(* path runs the bootstrap.  The code bypasses it whenever the settings    *)
(* carry a binary section, and without a path launches "emmylua_ls".       *)
(***************************************************************************)
CommandEnded(i) == loc[i].cmd_pc = "done"
BootstrapRan(i) == loc[i].pc # "idle"
UserPath(i) == loc[i].settings.binary.some /\ loc[i].settings.binary.path.some

\* C12: a call that read its settings bypassed the bootstrap if and only if they
\* carry binary.path, and then returned that path, the configured arguments
\* (none by default) and an empty environment.
C12_OverrideIffPath ==
  \A i \in Instances :
    (CommandEnded(i) /\ loc[i].settings.ok) =>
      IF UserPath(i)
      THEN /\ ~BootstrapRan(i)
           /\ loc[i].command.kind = "Ok"
           /\ loc[i].command.command = loc[i].settings.binary.path.value
           /\ loc[i].command.args =
                (IF loc[i].settings.binary.arguments.some
                 THEN loc[i].settings.binary.arguments.value ELSE <<>>)
           /\ loc[i].command.env = {}
      ELSE BootstrapRan(i)

\* C12 with the path given, or no binary section at all: this much the code does.
C12_OverrideWithPath ==
  \A i \in Instances :
    (CommandEnded(i) /\ loc[i].settings.ok
       /\ (UserPath(i) \/ ~loc[i].settings.binary.some)) =>
      IF UserPath(i)
      THEN /\ ~BootstrapRan(i)
           /\ loc[i].log = <<>>
           /\ fs = loc[i].fs0
           /\ loc[i].command.kind = "Ok"
           /\ loc[i].command.command = loc[i].settings.binary.path.value
           /\ loc[i].command.args =
                (IF loc[i].settings.binary.arguments.some
                 THEN loc[i].settings.binary.arguments.value ELSE <<>>)
           /\ loc[i].command.env = {}
      ELSE BootstrapRan(i)

(***************************************************************************)
(* C13.  Launch command on the bootstrap route: a command is returned only *)
(* after the bootstrap returned a path, that path was verified to be a     *)
(* regular file, make_file_executable succeeded on it and ./logs was       *)
(* created, in this order; the command is the stable install path with     *)
(* arguments -c stdio --log-level error and an empty environment.  A path  *)
(* that is no regular file fails the call before anything further is done. *)
(***************************************************************************)
LaunchArgs ==
  << <<"-","c">>, <<"s","t","d","i","o">>,
     <<"-","-","l","o","g","-","l","e","v","e","l">>, <<"e","r","r","o","r">> >>

LaunchSteps == <<"binary_exists", "make_file_executable", "create_dir_all:logs">>

Count(i, entry) == Len(SelectSeq(loc[i].log, LAMBDA e : e = entry))

BinaryMissing(i) ==
  loc[i].command.kind = "Err"
  /\ loc[i].command.error = "Binary not found at expected path"

\* C13: on the bootstrap route a command is returned only after the bootstrap's
\* Ok, the file check, make_file_executable and the creation of ./logs, in this
\* order, and it is the stable path with -c stdio --log-level error and no
\* environment; a missing binary fails the call with nothing further done.
C13_LaunchCommand ==
  \A i \in Instances :
    (CommandEnded(i) /\ BootstrapRan(i)) =>
      /\ loc[i].command.kind = "Ok" =>
           /\ Succeeded(i)
           /\ loc[i].result.path = StablePath
           /\ StablePresent(fs)
           /\ Len(loc[i].log) >= 3
           /\ SubSeq(loc[i].log, Len(loc[i].log) - 2, Len(loc[i].log)) = LaunchSteps
           /\ \A k \in 1..3 : Count(i, LaunchSteps[k]) = 1
           /\ loc[i].command.command = StablePath
           /\ loc[i].command.args = LaunchArgs
           /\ loc[i].command.env = {}
      /\ (Succeeded(i) /\ ~StablePresent(fs)) =>
           /\ BinaryMissing(i)
           /\ \A k \in 1..3 : Count(i, LaunchSteps[k]) = 0
      /\ BinaryMissing(i) => (Succeeded(i) /\ ~StablePresent(fs))
      /\ ~Succeeded(i) => (loc[i].command.kind = "Err"
                           /\ \A k \in 1..3 : Count(i, LaunchSteps[k]) = 0)
      /\ loc[i].command.kind = "Err" => ~Has(i, "create_dir_all:logs")

\* A cold install on windows has returned its launch command.
C13_Witness ==
  /\ platform[1] = "Windows"
  /\ CommandEnded(1)
  /\ loc[1].command.kind = "Ok"
  /\ ~StablePresent(loc[1].fs0)
  /\ Has(1, "copy")
  /\ loc[1].command.command = <<BIN, EMMYLUA_LS_EXE>>

\* A call whose binary was removed after the bootstrap returned has failed.
C13_WitnessMissing ==
  /\ CommandEnded(1)
  /\ Succeeded(1)
  /\ BinaryMissing(1)

(***************************************************************************)
(* language_server_workspace_configuration (lines 307-423).  A JSON value  *)
(* is a pair of its type and its content; an object is a function from its keys *)
(* and the emitted object is kept as a function from the key path of each  *)
(* of its fields to the value emitted there.                               *)
(***************************************************************************)
JNull == <<"null", 0>>
JBool(b) == <<"bool", b>>
JNum(n) == <<"num", n>>
JFloat == <<"float", 0>>
JStr(x) == <<"str", x>>
JArr(a) == <<"arr", a>>
JObj(o) == <<"obj", o>>

\* Value::get(key): the member of an object, None on anything else
get(value, key) ==
  IF value[1] = "obj" /\ key \in DOMAIN value[2] THEN Some(value[2][key]) ELSE None

\* settings.get(k1).and_then(|v| v.get(k2))...
RECURSIVE get_chain(_, _)
get_chain(value, path) ==
  IF path = <<>> THEN Some(value)
  ELSE LET m == get(value, Head(path))
       IN IF m.some THEN get_chain(m.value, Tail(path)) ELSE None

\* Value::as_str, as_bool, as_i64, as_u64; cloned keeps the value whatever it is
as_str(value) == IF value[1] = "str" THEN Some(value) ELSE None
as_bool(value) == IF value[1] = "bool" THEN Some(value) ELSE None
as_i64(value) == IF value[1] = "num" THEN Some(value) ELSE None
as_u64(value) == IF value[1] = "num" /\ value[2] >= 0 THEN Some(value) ELSE None
cloned(value) == Some(value)

\* the conversion a field's line applies to the value it found
convert(read, value) ==
  CASE read = "cloned" -> cloned(value)
    [] read = "as_str" -> as_str(value)
    [] read = "as_bool" -> as_bool(value)
    [] read = "as_i64" -> as_i64(value)
    [] read = "as_u64" -> as_u64(value)

\* One line of the json! literal: the key path read and emitted, the conversion,
\* and the value of unwrap_or (null where the line has none).
Field(path, read, default) == [path |-> path, read |-> read, default |-> default]

Fields ==
  {
    Field(<<"workspace", "library">>, "cloned", JArr(<<>>)),
    Field(<<"workspace", "ignoreDir">>, "cloned", JArr(<<>>)),
    Field(<<"workspace", "ignoreGlobs">>, "cloned", JArr(<<>>)),
    Field(<<"workspace", "workspaceRoots">>, "cloned", JArr(<<>>)),
    Field(<<"workspace", "moduleMap">>, "cloned", JArr(<<>>)),
    Field(<<"workspace", "encoding">>, "as_str", JStr("utf-8")),
    Field(<<"workspace", "preloadFileSize">>, "as_i64", JNum(0)),
    Field(<<"workspace", "enableReindex">>, "as_bool", JBool(FALSE)),
    Field(<<"workspace", "reindexDuration">>, "as_u64", JNum(5000)),
    Field(<<"completion", "enable">>, "as_bool", JBool(TRUE)),
    Field(<<"completion", "callSnippet">>, "as_bool", JBool(FALSE)),
    Field(<<"completion", "autoRequire">>, "as_bool", JBool(TRUE)),
    Field(<<"completion", "autoRequireFunction">>, "as_str", JStr("require")),
    Field(<<"completion", "autoRequireNamingConvention">>, "as_str", JStr("keep")),
    Field(<<"completion", "autoRequireSeparator">>, "as_str", JStr(".")),
    Field(<<"completion", "baseFunctionIncludesName">>, "as_bool", JBool(TRUE)),
    Field(<<"completion", "postfix">>, "as_str", JStr("@")),
    Field(<<"diagnostics", "enable">>, "as_bool", JBool(TRUE)),
    Field(<<"diagnostics", "globals">>, "cloned", JArr(<<>>)),
    Field(<<"diagnostics", "globalsRegex">>, "cloned", JArr(<<>>)),
    Field(<<"diagnostics", "disable">>, "cloned", JArr(<<>>)),
    Field(<<"diagnostics", "enables">>, "cloned", JArr(<<>>)),
    Field(<<"diagnostics", "severity">>, "cloned", JObj(<<>>)),
    Field(<<"diagnostics", "diagnosticInterval">>, "as_u64", JNum(500)),
    Field(<<"hint", "enable">>, "as_bool", JBool(TRUE)),
    Field(<<"hint", "paramHint">>, "as_bool", JBool(TRUE)),
    Field(<<"hint", "localHint">>, "as_bool", JBool(TRUE)),
    Field(<<"hint", "indexHint">>, "as_bool", JBool(TRUE)),
    Field(<<"hint", "overrideHint">>, "as_bool", JBool(TRUE)),
    Field(<<"hint", "metaCallHint">>, "as_bool", JBool(TRUE)),
    Field(<<"hint", "enumParamHint">>, "as_bool", JBool(FALSE)),
    Field(<<"runtime", "version">>, "as_str", JStr("LuaLatest")),
    Field(<<"runtime", "extensions">>, "cloned", JArr(<<>>)),
    Field(<<"runtime", "requireLikeFunction">>, "cloned", JArr(<<>>)),
    Field(<<"runtime", "requirePattern">>, "cloned", JArr(<<>>)),
    Field(<<"runtime", "nonstandardSymbol">>, "cloned", JArr(<<>>)),
    Field(<<"runtime", "frameworkVersions">>, "cloned", JArr(<<>>)),
    Field(<<"runtime", "special">>, "cloned", JObj(<<>>)),
    Field(<<"runtime", "classDefaultCall", "functionName">>, "as_str", JStr("")),
    Field(<<"runtime", "classDefaultCall", "forceNonColon">>, "as_bool", JBool(FALSE)),
    Field(<<"runtime", "classDefaultCall", "forceReturnSelf">>, "as_bool", JBool(FALSE)),
    Field(<<"hover", "enable">>, "as_bool", JBool(TRUE)),
    Field(<<"hover", "customDetail">>, "as_u64", JNull),
    Field(<<"format", "useDiff">>, "as_bool", JBool(FALSE)),
    Field(<<"format", "externalTool">>, "cloned", JNull),
    Field(<<"format", "externalToolRangeFormat">>, "cloned", JNull),
    Field(<<"doc", "syntax">>, "as_str", JStr("md")),
    Field(<<"doc", "knownTags">>, "cloned", JArr(<<>>)),
    Field(<<"doc", "privateName">>, "cloned", JArr(<<>>)),
    Field(<<"doc", "rstDefaultRole">>, "as_str", JNull),
    Field(<<"doc", "rstPrimaryDomain">>, "as_str", JNull),
    Field(<<"codeLens", "enable">>, "as_bool", JBool(TRUE)),
    Field(<<"semanticTokens", "enable">>, "as_bool", JBool(TRUE)),
    Field(<<"semanticTokens", "renderDocumentationMarkup">>, "as_bool", JBool(FALSE)),
    Field(<<"signature", "detailSignatureHelper">>, "as_bool", JBool(TRUE)),
    Field(<<"references", "enable">>, "as_bool", JBool(TRUE)),
    Field(<<"references", "fuzzySearch">>, "as_bool", JBool(TRUE)),
    Field(<<"references", "shortStringSearch">>, "as_bool", JBool(FALSE)),
    Field(<<"documentColor", "enable">>, "as_bool", JBool(TRUE)),
    Field(<<"inlineValues", "enable">>, "as_bool", JBool(TRUE)),
    Field(<<"codeAction", "insertSpace">>, "as_bool", JBool(FALSE)),
    Field(<<"strict", "arrayIndex">>, "as_bool", JBool(TRUE)),
    Field(<<"strict", "docBaseConstMatchBaseType">>, "as_bool", JBool(FALSE)),
    Field(<<"strict", "metaOverrideFileDefine">>, "as_bool", JBool(TRUE)),
    Field(<<"strict", "requirePath">>, "as_bool", JBool(FALSE)),
    Field(<<"strict", "typeCall">>, "as_bool", JBool(FALSE)),
    Field(<<"resource", "paths">>, "cloned", JArr(<<>>))
  }

FieldPaths == {f.path : f \in Fields}
FieldAt(path) == CHOOSE f \in Fields : f.path = path

\* the value one line emits
emit(settings, f) ==
  LET found == get_chain(settings, f.path)
      conv == IF found.some THEN convert(f.read, found.value) ELSE None
  IN unwrap_or(conv, f.default)

\* lines 314-422, on lsp_settings.settings
workspace_configuration(settings) ==
  IF ~settings.some
  THEN [kind |-> "Ok", value |-> <<>>]
  ELSE [kind |-> "Ok",
        value |-> [p \in FieldPaths |-> emit(settings.value, FieldAt(p))]]

\* What the user may have written under lsp.<server>.settings: nothing, an
\* empty object, something that is no object, a group that is no object, an
\* unknown field, and each field of the schema set to a value of each JSON type.
SettingValues ==
  {JNull, JBool(TRUE), JBool(FALSE), JNum(7), JNum(-1), JFloat, JStr("x"),
   JArr(<<"a">>), JObj([k \in {"a"} |-> JStr("b")])}

RECURSIVE Nest(_, _)
Nest(path, value) ==
  IF path = <<>> THEN value
  ELSE JObj([k \in {Head(path)} |-> Nest(Tail(path), value)])

UserSettings ==
  {None, Some(JObj(<<>>)), Some(JStr("x")), Some(Nest(<<"workspace">>, JStr("x"))),
   Some(Nest(<<"unknown", "field">>, JNum(1)))}
  \cup {Some(Nest(p, v)) : p \in FieldPaths, v \in SettingValues}

ConfigurationOutcomes ==
  {[ok |-> FALSE, binary |-> NoBinary, settings |-> None]}
  \cup {[ok |-> TRUE, binary |-> NoBinary, settings |-> u] : u \in UserSettings}

\* lines 307-423: the host asks for the workspace configuration (the function
\* keeps no state, so one call per run of the model shows all it does)
WorkspaceConfiguration(i) ==
  /\ loc[i].pc = "idle"
  /\ loc[i].cmd_pc = "none"
  /\ loc[i].configuration.kind = "none"
  /\ \E st \in ConfigurationOutcomes :
       loc' = [loc EXCEPT ![i].settings = st,
                          ![i].configuration =
                            IF st.ok THEN workspace_configuration(st.settings)
                            ELSE [kind |-> "Err", value |-> <<>>]]
  /\ UNCHANGED <<platform, now, fs>>

InitConfiguration ==
  /\ platform = <<"Linux", "X8664">>
  /\ now = Epoch0
  /\ fs = <<>>
  /\ loc = [i \in Instances |-> Locals(fs)]

NextConfiguration == WorkspaceConfiguration(1)

SpecConfiguration == InitConfiguration /\ [][NextConfiguration]_vars

(***************************************************************************)
(* C14.  Workspace configuration defaults.  As claimed: a recognized field *)
(* whose setting is present but of the wrong JSON shape is emitted as its  *)
(* documented default, as when the setting is absent.  The code converts   *)
(* only the scalar fields (as_str, as_bool, as_i64, as_u64); an array or   *)
(* object field is cloned whatever its shape.                              *)
(***************************************************************************)
JsonType(value) ==
  CASE value[1] \in {"num", "float"} -> "number"
    [] value[1] = "str" -> "string"
    [] value[1] = "bool" -> "boolean"
    [] value[1] = "arr" -> "array"
    [] value[1] = "obj" -> "object"
    [] value[1] = "null" -> "null"

\* The settings surface of the design, by shape and default.
ArrayFields ==
  {<<"workspace", k>> : k \in {"library", "ignoreDir", "ignoreGlobs", "workspaceRoots", "moduleMap"}}
  \cup {<<"diagnostics", k>> : k \in {"globals", "globalsRegex", "disable", "enables"}}
  \cup {<<"runtime", k>> : k \in {"extensions", "requireLikeFunction", "requirePattern",
                                  "nonstandardSymbol", "frameworkVersions"}}
  \cup {<<"doc", "knownTags">>, <<"doc", "privateName">>, <<"resource", "paths">>}

ObjectFields == {<<"diagnostics", "severity">>, <<"runtime", "special">>}
PassthroughFields == {<<"format", "externalTool">>, <<"format", "externalToolRangeFormat">>}

NumberDefaults ==
  {<<<<"workspace", "preloadFileSize">>, 0>>, <<<<"workspace", "reindexDuration">>, 5000>>,
   <<<<"diagnostics", "diagnosticInterval">>, 500>>}

StringDefaults ==
  {<<<<"workspace", "encoding">>, "utf-8">>,
   <<<<"completion", "autoRequireFunction">>, "require">>,
   <<<<"completion", "autoRequireNamingConvention">>, "keep">>,
   <<<<"completion", "autoRequireSeparator">>, ".">>,
   <<<<"completion", "postfix">>, "@">>,
   <<<<"runtime", "version">>, "LuaLatest">>,
   <<<<"runtime", "classDefaultCall", "functionName">>, "">>,
   <<<<"doc", "syntax">>, "md">>}

TrueFields ==
  {<<"completion", k>> : k \in {"enable", "autoRequire", "baseFunctionIncludesName"}}
  \cup {<<"hint", k>> : k \in {"enable", "paramHint", "localHint", "indexHint",
                               "overrideHint", "metaCallHint"}}
  \cup {<<"references", k>> : k \in {"enable", "fuzzySearch"}}
  \cup {<<"strict", k>> : k \in {"arrayIndex", "metaOverrideFileDefine"}}
  \cup {<<g, "enable">> : g \in {"diagnostics", "hover", "codeLens", "semanticTokens",
                                 "documentColor", "inlineValues"}}
  \cup {<<"signature", "detailSignatureHelper">>}

FalseFields ==
  {<<"workspace", "enableReindex">>, <<"completion", "callSnippet">>,
   <<"hint", "enumParamHint">>, <<"format", "useDiff">>,
   <<"semanticTokens", "renderDocumentationMarkup">>,
   <<"references", "shortStringSearch">>, <<"codeAction", "insertSpace">>,
   <<"runtime", "classDefaultCall", "forceNonColon">>,
   <<"runtime", "classDefaultCall", "forceReturnSelf">>}
  \cup {<<"strict", k>> : k \in {"docBaseConstMatchBaseType", "requirePath", "typeCall"}}

OptionalNumberFields == {<<"hover", "customDetail">>}
OptionalStringFields == {<<"doc", "rstDefaultRole">>, <<"doc", "rstPrimaryDomain">>}

RecognizedFields ==
  ArrayFields \cup ObjectFields \cup PassthroughFields \cup TrueFields \cup FalseFields
  \cup OptionalNumberFields \cup OptionalStringFields
  \cup {d[1] : d \in NumberDefaults} \cup {d[1] : d \in StringDefaults}

ExpectedType(p) ==
  CASE p \in ArrayFields -> "array"
    [] p \in ObjectFields \cup PassthroughFields -> "object"
    [] p \in TrueFields \cup FalseFields -> "boolean"
    [] p \in OptionalNumberFields \cup {d[1] : d \in NumberDefaults} -> "number"
    [] OTHER -> "string"

\* The documented default; null for a field that is optional.
DocumentedDefault(p) ==
  CASE p \in ArrayFields -> <<"arr", <<>>>>
    [] p \in ObjectFields -> <<"obj", <<>>>>
    [] p \in TrueFields -> <<"bool", TRUE>>
    [] p \in FalseFields -> <<"bool", FALSE>>
    [] \E d \in NumberDefaults : d[1] = p ->
         <<"num", (CHOOSE d \in NumberDefaults : d[1] = p)[2]>>
    [] \E d \in StringDefaults : d[1] = p ->
         <<"str", (CHOOSE d \in StringDefaults : d[1] = p)[2]>>
    [] OTHER -> <<"null", 0>>

\* The user's setting at a key path: <<value>> when present, <<>> when absent.
RECURSIVE UserSetting(_, _)
UserSetting(value, path) ==
  IF path = <<>> THEN <<value>>
  ELSE IF value[1] = "obj" /\ Head(path) \in DOMAIN value[2]
       THEN UserSetting(value[2][Head(path)], Tail(path))
       ELSE <<>>

WrongShape(i, p) ==
  LET u == UserSetting(loc[i].settings.settings.value, p)
  IN u # <<>> /\ JsonType(u[1]) # ExpectedType(p)

Configured(i) == loc[i].configuration.kind = "Ok" /\ loc[i].settings.settings.some

\* C14: every recognized field whose setting is present but of the wrong JSON
\* shape is emitted as its documented default.
C14_WrongShapeDefaults ==
  \A i \in Instances :
    Configured(i) =>
      \A p \in RecognizedFields :
        WrongShape(i, p) => loc[i].configuration.value[p] = DocumentedDefault(p)

\* C14 for the scalar fields, and the defaults of every absent field: this much
\* the code does.
C14_ScalarDefaults ==
  \A i \in Instances :
    Configured(i) =>
      /\ DOMAIN loc[i].configuration.value = RecognizedFields
      /\ \A p \in RecognizedFields :
           /\ UserSetting(loc[i].settings.settings.value, p) = <<>> =>
                loc[i].configuration.value[p] = DocumentedDefault(p)
           /\ (WrongShape(i, p) /\ ExpectedType(p) \in {"string", "boolean", "number"}) =>
                loc[i].configuration.value[p] = DocumentedDefault(p)

(***************************************************************************)
(* C15.  Installed binary matches the lock.  As claimed: a call that       *)
(* completes the download-and-install branch for a release copies the      *)
(* binary found inside that release's own extraction directory, so the     *)
(* installed binary is of the version written to the lock.  The code       *)
(* locates the binary below ./tmp, where an extraction directory an        *)
(* earlier call left behind may be found instead.                          *)
(***************************************************************************)
Copied(i) == Has(i, "copy")

\* C15: the file a call copied to the stable path was located inside the
\* extraction directory of the release it downloaded and is that release's
\* binary; once the lock is written, the installed binary is of the lock's version.
C15_InstalledMatchesLock ==
  \A i \in Instances :
    Copied(i) =>
      /\ IsPrefix(ExtractionDir(i), loc[i].found_binary_path)
      /\ fs[StablePath] = loc[i].release_result.version
      /\ (Succeeded(i) /\ Has(i, "write")) => fs[StablePath] = RecordVersion(fs)

\* C15 for a call that began with no binary of another extraction directory below
\* ./tmp: this much the code does.
C15_MatchesWhenTmpClean ==
  \A i \in Instances :
    (Copied(i) /\ OtherBinaries(i) = {}) =>
      /\ IsPrefix(ExtractionDir(i), loc[i].found_binary_path)
      /\ fs[StablePath] = loc[i].release_result.version
      /\ (Succeeded(i) /\ Has(i, "write")) => fs[StablePath] = RecordVersion(fs)

(***************************************************************************)
(* C16.  Write ordering and failure atomicity: the stable install path is  *)
(* written only after the download and the locate step of the same call    *)
(* succeeded, the lock only after the copy succeeded; so a call that fails *)
(* at the metadata fetch, the asset selection, the download or the locate  *)
(* step leaves the stable binary and the lock as they were.                *)
(***************************************************************************)
SameAt(f, g, p) ==
  /\ (p \in DOMAIN f) = (p \in DOMAIN g)
  /\ (p \in DOMAIN f) => (f[p] = g[p])

FirstIndex(i, entry) ==
  CHOOSE k \in 1..Len(loc[i].log) :
    loc[i].log[k] = entry /\ \A h \in 1..(k - 1) : loc[i].log[h] # entry

FailedEarly(i) ==
  \/ Failed(i) /\ loc[i].result.error \in
       {"Failed to fetch latest release info", "unsupported platform/architecture",
        "download_file failed", "Failed to find binary"}
  \/ loc[i].pc = "panicked" /\ Has(i, "status:Downloading")

\* What holds of every state of a call.
WriteOrder ==
  \A i \in Instances :
    /\ Copied(i) =>
         /\ DownloadOk(i)
         /\ FirstIndex(i, "download_file") < FirstIndex(i, "copy")
         /\ loc[i].found_binary_path # <<>>
    /\ Has(i, "write") => (Copied(i) /\ FirstIndex(i, "copy") < FirstIndex(i, "write"))
    /\ (loc[i].pc # "idle" /\ ~Copied(i)) =>
         (SameAt(fs, loc[i].fs0, StablePath) /\ SameAt(fs, loc[i].fs0, LockPath))
    /\ (loc[i].pc # "idle" /\ ~Has(i, "write")) => SameAt(fs, loc[i].fs0, LockPath)
    /\ FailedEarly(i) =>
         /\ ~Copied(i)
         /\ SameAt(fs, loc[i].fs0, StablePath)
         /\ SameAt(fs, loc[i].fs0, LockPath)

\* What holds of every step: only the install step of a call that downloaded and
\* located writes the stable path, and it writes the file located; only the lock
\* write of a call that copied changes the lock.
WriteSteps ==
  /\ ~SameAt(fs, fs', StablePath) =>
       \E i \in Instances :
         /\ loc[i].pc = "install"
         /\ DownloadOk(i)
         /\ loc[i].found_binary_path \in DOMAIN fs
         /\ fs'[StablePath] = fs[loc[i].found_binary_path]
  /\ ~SameAt(fs, fs', LockPath) =>
       \E i \in Instances : loc[i].pc = "write_lock" /\ Copied(i)

\* C16: the stable path is written only after download and locate succeeded, the
\* lock only after the copy; a call that fails before the install leaves both as
\* they were.
C16_WriteOrdering == []WriteOrder /\ [][WriteSteps]_vars

\* A call that found a binary and a lock has failed at the locate step.
C16_Witness ==
  /\ Failed(1)
  /\ loc[1].result.error = "Failed to find binary"
  /\ Has(1, "download_file")
  /\ StablePresent(loc[1].fs0)
  /\ LockPresent(loc[1].fs0)

(***************************************************************************)
(* Termination by the host: the extension's process is killed between two  *)
(* steps of a call, or while std::fs::copy is writing the stable path, and *)
(* the extension is loaded and called again later.                         *)
(***************************************************************************)
\* What a file holds when its writer was killed half way.
TRUNCATED == <<"t","r","u","n","c","a","t","e","d">>

InFlight(i) ==
  loc[i].pc \in {"read_lock", "probe_binary", "fetch", "compare", "select_asset",
                 "download", "locate", "install", "cleanup", "write_lock", "finish"}

\* The process is killed between two steps of the call.
Crash(i) ==
  /\ InFlight(i)
  /\ loc' = [loc EXCEPT ![i].pc = "crashed"]
  /\ UNCHANGED <<platform, now, fs>>

\* line 156: the process is killed inside std::fs::copy, which writes the stable
\* path in place: the file is there and holds a part of the binary.
CrashDuringCopy(i) ==
  /\ loc[i].pc = "install"
  /\ loc[i].found_binary_path # server_path(platform)
  /\ is_file(fs, loc[i].found_binary_path)
  /\ fs' = WriteFile(fs, server_path(platform), TRUNCATED)
  /\ loc' = [loc EXCEPT ![i].pc = "crashed",
                        ![i].log = loc[i].log \o <<"create_dir_all", "copy interrupted">>]
  /\ UNCHANGED <<platform, now>>

\* The extension is loaded again and the host calls it.
Restart(i) ==
  /\ loc[i].pc = "crashed"
  /\ loc' = [loc EXCEPT ![i] = [Locals(fs) EXCEPT !.pc = "read_lock"]]
  /\ UNCHANGED <<platform, now, fs>>

InitCrash ==
  /\ platform = <<"Linux", "X8664">>
  /\ now = Epoch0
  /\ fs \in InitialFilesystems(platform)
  /\ loc = [i \in Instances |-> Locals(fs)]

NextCrash == Step(1) \/ Crash(1) \/ CrashDuringCopy(1) \/ Restart(1)

SpecCrash == InitCrash /\ [][NextCrash]_vars

(***************************************************************************)
(* C17.  Crash self-healing.  As claimed: whatever step a call is killed   *)
(* at, the copy included, the stable binary that is left is intact, and    *)
(* later calls return an intact binary of the lock's version.  The code    *)
(* copies onto the stable path in place and accepts any regular file       *)
(* there: a binary cut short by the kill is returned by every later call   *)
(* that finds the lock fresh, the network down or the release unchanged.   *)
(***************************************************************************)
Intact(files) == StablePresent(files) => files[StablePath] # TRUNCATED

\* C17: the stable binary is intact in every state a kill can leave, every call
\* that returns a path returns an intact binary, and a call that installed left
\* the binary of the lock's version.
C17_CrashSelfHealing ==
  \A i \in Instances :
    /\ Intact(fs)
    /\ Succeeded(i) => (StablePresent(fs) /\ Intact(fs))
    /\ (Succeeded(i) /\ Has(i, "write")) => fs[StablePath] = RecordVersion(fs)

\* The binary a kill cut short is returned as up to date: the release fetched is
\* the one the lock records.
C17_TornReturned ==
  /\ Succeeded(1)
  /\ SameVersion(1)
  /\ StablePresent(fs)
  /\ fs[StablePath] = TRUNCATED

(***************************************************************************)
(* Two instances of the extension in the same working directory, each in a *)
(* call of check_and_install_server, their steps interleaved at will.      *)
(***************************************************************************)
InitRace ==
  /\ platform = <<"Linux", "X8664">>
  /\ now = Epoch0
  /\ fs \in InitialFilesystems(platform)
  /\ loc = [i \in Instances |-> [Locals(fs) EXCEPT !.pc = "read_lock"]]

NextRace == Bootstrap(1) \/ Bootstrap(2)

SpecRace == InitRace /\ [][NextRace]_vars

(***************************************************************************)
(* C18.  Two racing instances.  As claimed: every instance that reaches    *)
(* its install steps succeeds, and once both have returned the stable      *)
(* binary and the lock describe one and the same release.  The code        *)
(* coordinates nothing: one instance removes the extraction directory the  *)
(* other is about to copy from, and the last writer of the binary need not *)
(* be the last writer of the lock.                                         *)
(***************************************************************************)
ReachedInstall(i) ==
  loc[i].pc \in {"install", "cleanup", "write_lock", "finish"}
  \/ (Ended(i) /\ DownloadOk(i) /\ loc[i].found_binary_path # <<>>)

\* An error of the filesystem itself, not of the race.
IoFault(i) ==
  Failed(i) /\ loc[i].result.error \in {"create_dir_all or copy failed", "write failed"}

\* C18: an instance that reached its install steps and returned has succeeded
\* (short of an i/o error of its own), and once both instances have returned,
\* one of them having installed, the stable binary is of the release the lock
\* records.
C18_RaceValidInstallation ==
  /\ \A i \in Instances :
       (ReachedInstall(i) /\ Ended(i)) => (Succeeded(i) \/ IoFault(i))
  /\ ((\A i \in Instances : Ended(i)) /\ (\E i \in Instances : Has(i, "write"))) =>
       /\ StablePresent(fs)
       /\ LockPresent(fs)
       /\ fs[StablePath] = RecordVersion(fs)

\* Both instances returned success and the binary is not of the lock's release.
C18_BothSucceededMismatch ==
  /\ \A i \in Instances : Succeeded(i) /\ Has(i, "write")
  /\ fs[StablePath] # RecordVersion(fs)

\* An instance failed its copy because the other removed the extraction directory.
C18_CopySourceRemoved ==
  \E i \in Instances :
    Failed(i) /\ loc[i].result.error = "copy failed: No such file or directory"

(***************************************************************************)
(* Call after call with an installed binary: the extension is called again *)
(* each time the previous call has returned, the clock moving in between.  *)
(***************************************************************************)
\* The host calls again; what the call that just returned did is remembered.
NextCall(i) ==
  /\ loc[i].pc \in {"idle", "returned", "panicked"}
  /\ LET l == loc[i]
         probed == \E k \in 1..Len(l.log) : l.log[k] = "latest_github_release"
         before == IF l.pc = "idle" THEN NoPrev
                   ELSE [probed |-> probed,
                         same_version |->
                           /\ probed
                           /\ l.release_result.ok
                           /\ l.release_result.version = l.current_version
                           /\ l.result.kind = "Ok",
                         at |-> l.time0,
                         last_checked |-> l.last_checked]
     IN loc' = [loc EXCEPT ![i] =
          [Locals(fs) EXCEPT !.pc = "read_lock", !.prev = before]]
  /\ UNCHANGED <<platform, now, fs>>

InitThrottle ==
  /\ platform = <<"Linux", "X8664">>
  /\ now = Epoch0
  /\ fs \in {FsOf({<<emmylua_update_lock, c>>, <<server_path(platform), V090>>}) :
               c \in InitialLocks}
  /\ loc = [i \in Instances |-> Locals(fs)]

NextThrottle == ClockStep \/ NextCall(1) \/ Bootstrap(1)

SpecThrottle == InitThrottle /\ [][NextThrottle]_vars

(***************************************************************************)
(* C19.  Probe throttling when nothing changes.  As claimed: while the     *)
(* binary stays present and the release stays the lock's version, the feed *)
(* is probed at most once per 86400-second window.  The same-version       *)
(* branch leaves the lock's timestamp as it is, so once the lock is a      *)
(* window old every call finds it stale and probes.                        *)
(***************************************************************************)
\* This call and the one before it both probed the feed and found the release
\* the lock records, the binary present.
ProbedTwice(i) ==
  /\ Ended(i)
  /\ SameVersion(i)
  /\ loc[i].prev.probed
  /\ loc[i].prev.same_version

\* The lock was at least a window old when the call read the clock.
StaleAt(i) == loc[i].time0 - RecordTimestamp(loc[i].fs0) >= Window
FreshAt(i) ==
  /\ RecordTimestamp(loc[i].fs0) <= loc[i].time0
  /\ loc[i].time0 - RecordTimestamp(loc[i].fs0) < Window

\* C19 as claimed: two calls that both probed with nothing changed are at least
\* a window apart.
C19_OncePerWindow ==
  \A i \in Instances :
    ProbedTwice(i) => loc[i].time0 - loc[i].prev.at >= Window

\* C19 as amended: with the binary and a lock present, a call probes the feed
\* when the lock is a window old or more and does not when the lock is younger;
\* a probe that finds the lock's version leaves the lock as it was, so every call
\* after it, at the same time or later, probes again.
C19_ProbeWheneverStale ==
  \A i \in Instances :
    (Ended(i) /\ StablePresent(loc[i].fs0) /\ LockPresent(loc[i].fs0)) =>
      /\ StaleAt(i) => Fetched(i)
      /\ FreshAt(i) => ~Fetched(i)
      /\ (Fetched(i) /\ SameVersion(i)) =>
           /\ Succeeded(i)
           /\ fs = loc[i].fs0
           /\ RecordTimestamp(fs) = RecordTimestamp(loc[i].fs0)
      /\ (/\ loc[i].prev.same_version
          /\ loc[i].prev.at - loc[i].prev.last_checked >= Window
          /\ loc[i].time0 >= loc[i].prev.at) =>
           /\ RecordTimestamp(loc[i].fs0) = loc[i].prev.last_checked
           /\ Fetched(i)

\* Two calls at the same second, a window after the lock was written, have both
\* probed the feed and found the version of the lock.
C19_Witness ==
  /\ ProbedTwice(1)
  /\ StaleAt(1)
  /\ loc[1].prev.at - loc[1].prev.last_checked >= Window
  /\ loc[1].time0 = loc[1].prev.at
  /\ RecordTimestamp(loc[1].fs0) = Epoch0

(***************************************************************************)
(* C20.  Status protocol on success: the status signals of a call come in  *)
(* the order CheckingForUpdate, then possibly Downloading, then None;      *)
(* CheckingForUpdate comes before the metadata fetch and Downloading       *)
(* before the download primitive; a call that returned a path either       *)
(* signalled nothing (the fast path) or signalled None last.               *)
(***************************************************************************)
StatusEntries == {"status:CheckingForUpdate", "status:Downloading", "status:None"}

Signals(i) == SelectSeq(loc[i].log, LAMBDA e : e \in StatusEntries)

SignalOrders ==
  { <<>>,
    <<"status:CheckingForUpdate">>,
    <<"status:CheckingForUpdate", "status:None">>,
    <<"status:CheckingForUpdate", "status:Downloading">>,
    <<"status:CheckingForUpdate", "status:Downloading", "status:None">> }

\* C20: the signals of a call are, in order, CheckingForUpdate, possibly
\* Downloading, then None; the first precedes the fetch, the second the
\* download; a successful return signalled nothing or signalled None last.
C20_StatusProtocol ==
  \A i \in Instances :
    /\ Signals(i) \in SignalOrders
    /\ Fetched(i) =>
         /\ Has(i, "status:CheckingForUpdate")
         /\ FirstIndex(i, "status:CheckingForUpdate") < FirstIndex(i, "latest_github_release")
    /\ Has(i, "download_file") =>
         /\ Has(i, "status:Downloading")
         /\ FirstIndex(i, "status:Downloading") < FirstIndex(i, "download_file")
    /\ Succeeded(i) =>
         \/ loc[i].log = <<>> /\ Signals(i) = <<>>
         \/ /\ Signals(i) # <<>>
            /\ Signals(i)[Len(Signals(i))] = "status:None"
            /\ loc[i].log[Len(loc[i].log)] = "status:None"
    /\ (Succeeded(i) /\ Signals(i) = <<>>) => ~Fetched(i)

\* An upgrade has returned its path after all three signals.
C20_Witness ==
  /\ Succeeded(1)
  /\ StablePresent(loc[1].fs0)
  /\ Signals(1) = <<"status:CheckingForUpdate", "status:Downloading", "status:None">>
  /\ Has(1, "write")

(***************************************************************************)
(* C21.  Status on failure: a call that returns an error never signals     *)
(* None.  The errors of lines 108 and 126 come after CheckingForUpdate     *)
(* (line 86) and before Downloading (line 142); those of lines 148, 151,   *)
(* 155, 156 and 168 come after Downloading and before the None of line     *)
(* 170.  No error is returned before line 86, so the last status the host  *)
(* has received after a failing call is one this call signalled.           *)
(***************************************************************************)
FetchError == "Failed to fetch latest release info"

PlatformError == "unsupported platform/architecture"

InstallErrors ==
  {"download_file failed", "Failed to find binary", "create_dir_all or copy failed",
   "copy failed: No such file or directory", "write failed"}

LastSignal(i) == Signals(i)[Len(Signals(i))]

\* C21: a call that returned an error signalled at least once and never None;
\* after a failed fetch with no binary, or on an unsupported platform, its last
\* signal is CheckingForUpdate; after a failed download, locate, mkdir/copy or
\* lock write it is Downloading.  A call that panicked signalled no None either.
C21_StatusOnFailure ==
  \A i \in Instances :
    /\ Failed(i) =>
         /\ ~Has(i, "status:None")
         /\ Signals(i) # <<>>
         /\ loc[i].result.error \in {FetchError, PlatformError} \cup InstallErrors
         /\ loc[i].result.error = FetchError =>
              /\ ~loc[i].release_result.ok
              /\ ~StablePresent(fs)
              /\ Signals(i) = <<"status:CheckingForUpdate">>
         /\ loc[i].result.error = PlatformError =>
              /\ ~Supported(platform)
              /\ loc[i].release_result.ok
              /\ Signals(i) = <<"status:CheckingForUpdate">>
         /\ loc[i].result.error \in InstallErrors =>
              /\ Signals(i) = <<"status:CheckingForUpdate", "status:Downloading">>
              /\ LastSignal(i) = "status:Downloading"
              /\ Has(i, "download_file")
         /\ (loc[i].result.error = "download_file failed") =>
              loc[i].log[Len(loc[i].log)] = "download_file"
         /\ (loc[i].result.error = "write failed") =>
              (Has(i, "remove_dir_all") /\ ~Has(i, "write"))
    /\ loc[i].pc = "panicked" => ~Has(i, "status:None")
    /\ (loc[i].pc = "panicked" /\ Fetched(i)) =>
         LastSignal(i) = "status:Downloading"

\* The lock write failed after the binary was copied: the call returned the
\* error with Downloading as the last status.
C21_Witness ==
  /\ Failed(1)
  /\ loc[1].result.error = "write failed"
  /\ Has(1, "copy")
  /\ LastSignal(1) = "status:Downloading"

\* The fetch failed with no binary: CheckingForUpdate is the last status.
C21_WitnessFetch ==
  /\ Failed(1)
  /\ loc[1].result.error = FetchError
  /\ LastSignal(1) = "status:CheckingForUpdate"

\* On linux/x86 an install was required: CheckingForUpdate is the last status.
C21_WitnessPlatform ==
  /\ Failed(1)
  /\ loc[1].result.error = PlatformError
  /\ LastSignal(1) = "status:CheckingForUpdate"

====
